---------------------------- MODULE Spec2Model ----------------------------
(***************************************************************************)
(* Podcast-Energy-Experiment: the trial coordinator (run_experiment.py),   *)
(* the EnergyBridge wrapper (energy_profiler.py) and the parts of the      *)
(* browser controller and results manager the coordinator calls.           *)
(*                                                                         *)
(* Seven specifications share the variables:                               *)
(*   Spec       the batch of trials run by main()/run_single_trial();      *)
(*   ParseSpec  EnergyProfiler._parse_csv applied to bounded CSV files;    *)
(*   SpeedSpec  BrowserController.start_playback on bounded pages;         *)
(*   PlaySpec   start_playback on pages with bounded play controls;        *)
(*   SearchSpec the option search of an open speed menu;                   *)
(*   DomSpec    the page scripts that find and click the speed label;      *)
(*   ClimbSpec  the climb from the label to its clickable ancestor.        *)
(*                                                                         *)
(* Conventions.  A Python value that may be None is a sequence of length   *)
(* at most one: <<>> is None, <<v>> is v.  A dict is a record holding      *)
(* exactly the keys the dict holds.  Energy is held in millijoules and     *)
(* time in milliseconds, so that power (W) times time (ms) is an integer;  *)
(* total_energy_joules = n/1000 J is the integer n.  Cell values and time  *)
(* stamps are drawn so that round(., 4) on joules and round(., 2) on       *)
(* seconds are the identity (integer joules/watts, multiples of 10 ms).    *)
(***************************************************************************)
EXTENDS Integers, Sequences, FiniteSets, TLC

VARIABLES
    args_dry_run,   \* args.dry_run
    args_config,    \* args.config: <<>> or <<name>>
    os_name,        \* platform.system()
    pc,             \* position in main()/run_single_trial()
    cfg_i,          \* index of the config of the outer loop in configs_to_run
    run_id,         \* run_id of the inner loop
    result,         \* run_single_trial's result dict
    pending,        \* the exception propagating out of the try statement
    profiler,       \* EnergyProfiler: dry_run, _proc (held or not), _output_file
    controller,     \* BrowserController: _playwright, _context (set or None)
    proc_state,     \* the sampler process launched by this trial: none/running/exited
    csv,            \* the file at the trial's output path (NoFile when absent)
    trace,          \* the calls and process operations of the current trial, in order
    saved,          \* the (config, run_id) keys of the trial_XX.json files written
    last_saved,     \* the dict save_trial wrote in the current trial: <<>> or <<dict>>
    orphans,        \* sampler processes of earlier trials that are still running
    open_sessions,  \* browser sessions of earlier trials that were never closed
    playback,       \* what start_playback did in this trial
    parsed,         \* ParseSpec: the outcome of _parse_csv(csv), <<>> before the call
    ui_platform,    \* SpeedSpec, SearchSpec, DomSpec: the controller's platform
    ui_speed,       \* the controller's speed, in tenths
    ui_page,        \* the page the controller drives (DomSpec: its elements)
    ui_run          \* the outcome of the UI procedure, <<>> before the call

vars == <<args_dry_run, args_config, os_name, pc, cfg_i, run_id, result, pending,
          profiler, controller, proc_state, csv, trace, saved, last_saved,
          orphans, open_sessions, playback, parsed, ui_platform, ui_speed, ui_page, ui_run>>

\* the variables of the UI specifications
uiVars == <<ui_platform, ui_speed, ui_page, ui_run>>

-----------------------------------------------------------------------------
(* Bounds of the model *)

\* args.runs: trials per configuration
Runs == 2
\* how many entries of CONFIGS a run without --config iterates over
MaxConfigs == 2
\* data rows of a generated CSV file
MaxRows == 3
\* largest number a generated cell holds
MaxVal == 2

-----------------------------------------------------------------------------
(* Sequence helpers *)

RECURSIVE SeqSum(_)
SeqSum(s) == IF s = <<>> THEN 0 ELSE Head(s) + SeqSum(Tail(s))

Range(s) == {s[i] : i \in 1..Len(s)}

Count(s, e) == Cardinality({i \in 1..Len(s) : s[i] = e})

\* s[:n]
Prefix(s, n) == SubSeq(s, 1, IF Len(s) < n THEN Len(s) ELSE n)

Max0(n) == IF n < 0 THEN 0 ELSE n

-----------------------------------------------------------------------------
(* CSV files as csv.DictReader presents them *)

\* A cell: the text of a number, text that float() rejects, the empty
\* string, or None (the restval of a row shorter than the header).
Num(n)    == [kind |-> "num", val |-> n]
BadCell   == [kind |-> "bad", val |-> 0]
EmptyCell == [kind |-> "empty", val |-> 0]
NoneCell  == [kind |-> "none", val |-> 0]

\* The key DictReader files surplus cells under (restkey = None).
NoneKey == "<None>"

\* No file at the path.
NoFile == [exists |-> FALSE]

\* A file open() or the reader fails on.
Unreadable == [exists |-> TRUE, readable |-> FALSE]

\* A readable file: header names, data rows (each a function from the header
\* names to cells), and whether the first data row is longer than the header.
File(hdr, rows, long) ==
    [exists |-> TRUE, readable |-> TRUE, hdr |-> hdr, rows |-> rows, long |-> long]

\* keys of rows[0]
Headers(f) == f.hdr \o (IF f.long THEN <<NoneKey>> ELSE <<>>)

-----------------------------------------------------------------------------
(* EnergyProfiler._parse_csv *)

\* Sampling interval in milliseconds (ENERGIBRIDGE_INTERVAL_MS default)
SAMPLE_INTERVAL_MS == 500

\* joules in the unit the model holds energy in
Joules(n) == 1000 * n

\* float(c) returns a number
FloatOk(c) == c.kind = "num"

\* bool(c) for a cell read with r.get(col): a non-empty string
Truthy(c) == c.kind \in {"num", "bad"}

RECURSIVE Column(_, _)
\* [row[col] for row in rows]
Column(rows, col) ==
    IF rows = <<>> THEN <<>> ELSE <<Head(rows)[col]>> \o Column(Tail(rows), col)

\* the numbers of the cells float() accepts, in order
Vals(cells) ==
    LET ok == SelectSeq(cells, FloatOk) IN [i \in 1..Len(ok) |-> ok[i].val]

\* Explicit energy (Joules) candidates
EnergyCandidates ==
    <<"PACKAGE_ENERGY (J)", "package_energy", "Package Energy (J)",
      "CPU Energy (J)", "energy", "total_energy">>

\* Explicit power (Watts) candidates
PowerCandidates ==
    <<"SYSTEM_POWER (Watts)", "SYSTEM_POWER", "CPU_POWER (Watts)",
      "CPU_POWER", "PACKAGE_POWER (Watts)">>

RECURSIVE FirstCandidate(_, _)
\* for candidate in cands: if candidate in headers: col = candidate; break
FirstCandidate(cands, headers) ==
    IF cands = <<>> THEN <<>>
    ELSE IF Head(cands) \in Range(headers) THEN <<Head(cands)>>
    ELSE FirstCandidate(Tail(cands), headers)

\* "energy" in h.lower(), for the header names the model generates
LowerHasEnergy(h) ==
    h \in {"PACKAGE_ENERGY (J)", "package_energy", "Package Energy (J)",
           "CPU Energy (J)", "energy", "total_energy",
           "CPU_ENERGY (J)", "DRAM_ENERGY (J)"}

\* "power" in h.lower(), for the header names the model generates
LowerHasPower(h) ==
    h \in {"SYSTEM_POWER (Watts)", "SYSTEM_POWER", "CPU_POWER (Watts)",
           "CPU_POWER", "PACKAGE_POWER (Watts)", "GPU0_POWER (mWatts)"}

RECURSIVE FallbackScan(_, _)
\* Fallback heuristics: the loop over the headers, from the first one on.
\* h.lower() raises AttributeError on the None key.
FallbackScan(headers, power_col) ==
    IF headers = <<>>
    THEN [exc |-> <<>>, energy_col |-> <<>>, power_col |-> power_col]
    ELSE IF Head(headers) = NoneKey
    THEN [exc |-> <<"AttributeError">>, energy_col |-> <<>>, power_col |-> power_col]
    ELSE IF LowerHasEnergy(Head(headers))
    THEN [exc |-> <<>>, energy_col |-> <<Head(headers)>>, power_col |-> power_col]
    ELSE FallbackScan(Tail(headers),
                      IF LowerHasPower(Head(headers)) THEN <<Head(headers)>>
                      ELSE power_col)

\* Step 1: find a power or energy column
SelectColumns(headers) ==
    LET e == FirstCandidate(EnergyCandidates, headers)
        p == IF e = <<>> THEN FirstCandidate(PowerCandidates, headers) ELSE <<>>
    IN  IF e = <<>> /\ p = <<>>
        THEN FallbackScan(headers, <<>>)
        ELSE [exc |-> <<>>, energy_col |-> e, power_col |-> p]

\* TimeStamps with a cell float() rejects skipped instead of raising
TimeStamps_SkipMalformed(rows, col) ==
    LET cells == SelectSeq(Column(rows, col), FloatOk)
    IN  [ok |-> TRUE, ts |-> Vals(cells)]

\* the timestamps of one column: the cells that are truthy, float()ed; a cell
\* float() rejects raises inside the try, which leaves delta_times empty
TimeStamps(rows, col) ==
    LET cells == SelectSeq(Column(rows, col), Truthy)
    IN  [ok |-> \A i \in 1..Len(cells) : FloatOk(cells[i]), ts |-> Vals(cells)]

\* consecutive differences
Diffs(ts) == [i \in 1..(Len(ts) - 1) |-> ts[i + 1] - ts[i]]

\* Fallback: assume uniform sampling interval
NominalTiming(rows) ==
    [delta_times |-> [i \in 1..Max0(Len(rows) - 1) |-> SAMPLE_INTERVAL_MS],
     duration    |-> SAMPLE_INTERVAL_MS * Len(rows)]

\* Step 2: parse timestamps for delta t (milliseconds)
Timing(headers, rows) ==
    IF "Delta" \in Range(headers)
    THEN LET t == TimeStamps(rows, "Delta")
         IN  IF t.ok /\ Len(t.ts) >= 2
             THEN [delta_times |-> Diffs(t.ts), duration |-> t.ts[Len(t.ts)]]
             ELSE NominalTiming(rows)
    ELSE IF "Time" \in Range(headers)
    THEN LET t == TimeStamps(rows, "Time")
         IN  IF t.ok /\ Len(t.ts) >= 2
             THEN [delta_times |-> Diffs(t.ts),
                   duration |-> t.ts[Len(t.ts)] - t.ts[1]]
             ELSE NominalTiming(rows)
    ELSE NominalTiming(rows)

\* ComputeTotalEnergy with the test written as strictly increasing
ComputeTotalEnergy_Strict(values) ==
    IF Len(values) >= 2 /\ \A i \in 1..(Len(values) - 1) : values[i] < values[i + 1]
    THEN values[Len(values)] - values[1]
    ELSE SeqSum(values)

\* all(v <= values[i+1] for i, v in enumerate(values[:-1]))
NonDecreasing(values) == \A i \in 1..(Len(values) - 1) : values[i] <= values[i + 1]

\* Step 3, energy column: cumulative (last - first) or per-sample (sum)
ComputeTotalEnergy(values) ==
    IF Len(values) >= 2 /\ NonDecreasing(values)
    THEN values[Len(values)] - values[1]
    ELSE SeqSum(values)

\* Step 3, power column: pair each power reading with the delta t that follows it
IntegratePower(power_vals, delta_times) ==
    LET n_pairs == IF Len(power_vals) < Len(delta_times) THEN Len(power_vals)
                   ELSE Len(delta_times)
    IN  SeqSum([i \in 1..n_pairs |-> power_vals[i] * delta_times[i]])

\* the dict _parse_csv returns at its end
Summary(rows, total_energy, used_col, duration_s, power_readings) ==
    [samples             |-> Len(rows),
     total_energy_joules |-> <<total_energy>>,
     energy_column_used  |-> used_col,
     duration_seconds    |-> IF duration_s # 0 THEN <<duration_s>> ELSE <<>>,
     mean_power_watts    |-> IF duration_s > 0
                             THEN <<[mj |-> total_energy, ms |-> duration_s]>>
                             ELSE <<>>,
     raw_power_readings  |-> Prefix(power_readings, 5)]

\* Steps 1 to 3 on a file with at least one data row
ParseRows(headers, rows) ==
    LET sel == SelectColumns(headers)
        tm  == Timing(headers, rows)
    IN  IF sel.exc # <<>> THEN [exc |-> sel.exc, ret |-> <<>>]
        ELSE IF sel.energy_col # <<>>
        THEN LET cells == Column(rows, sel.energy_col[1])
             IN  IF \E i \in 1..Len(cells) : cells[i].kind = "none"
                 THEN [exc |-> <<"TypeError">>, ret |-> <<>>]
                 ELSE [exc |-> <<>>,
                       ret |-> <<Summary(rows, Joules(ComputeTotalEnergy(Vals(cells))),
                                         sel.energy_col, tm.duration, Vals(cells))>>]
        ELSE IF sel.power_col # <<>>
        THEN LET cells == Column(rows, sel.power_col[1])
             IN  IF \E i \in 1..Len(cells) : cells[i].kind = "none"
                 THEN [exc |-> <<"TypeError">>, ret |-> <<>>]
                 ELSE [exc |-> <<>>,
                       ret |-> <<Summary(rows, IntegratePower(Vals(cells), tm.delta_times),
                                         sel.power_col, tm.duration, Vals(cells))>>]
        ELSE [exc |-> <<>>, ret |-> <<Summary(rows, 0, <<>>, tm.duration, <<>>)>>]

\* _parse_csv(filepath): exc is the exception it raises (<<>>: none), ret the
\* dict it returns
ParseCsv(f) ==
    IF ~f.readable
    THEN [exc |-> <<>>, ret |-> <<[error |-> "unreadable", samples |-> 0]>>]
    ELSE IF f.rows = <<>>
    THEN [exc |-> <<>>, ret |-> <<[samples |-> 0, total_energy_joules |-> <<0>>]>>]
    ELSE ParseRows(Headers(f), f.rows)

-----------------------------------------------------------------------------
(* The CSV files the model generates *)

\* Header rows: table names, names only the fallback heuristics match, a name
\* nothing matches, with a "Time" or "Delta" column or neither.
HeaderRows ==
    {<<"Time", "PACKAGE_ENERGY (J)">>,
     <<"Delta", "PACKAGE_ENERGY (J)">>,
     <<"energy">>,
     <<"Delta", "SYSTEM_POWER (Watts)">>,
     <<"Time", "CPU_POWER">>,
     <<"CPU_POWER">>,
     <<"Time", "CPU_ENERGY (J)">>,
     <<"Time", "GPU0_POWER (mWatts)">>,
     <<"Time", "CPU_USAGE_0">>,
     <<"Time", "SYSTEM_POWER (Watts)", "PACKAGE_ENERGY (J)">>,
     <<"GPU0_POWER (mWatts)", "DRAM_ENERGY (J)">>}

TimeColumns == {"Time", "Delta"}

\* How the cells of a time column run down the rows
TimePatterns == {"uniform", "offset", "uneven", "malformed", "blank"}

\* the time cell of row i (milliseconds)
TimeCell(pat, i) ==
    CASE pat = "uniform"   -> Num(SAMPLE_INTERVAL_MS * (i - 1))
      [] pat = "offset"    -> Num(1000 + SAMPLE_INTERVAL_MS * (i - 1))
      [] pat = "uneven"    -> Num(1000 * (i - 1) * (i - 1))
      [] pat = "malformed" -> IF i = 2 THEN BadCell
                              ELSE Num(SAMPLE_INTERVAL_MS * (i - 1))
      [] pat = "blank"     -> EmptyCell

\* the cells of a value column: numbers, text float() rejects, a missing cell
ValueCells == {Num(n) : n \in 0..MaxVal} \cup {BadCell, NoneCell}

\* the first header that is not a time column
ValueColumn(hdr) == hdr[CHOOSE i \in 1..Len(hdr) :
                          /\ hdr[i] \notin TimeColumns
                          /\ \A j \in 1..(i - 1) : hdr[j] \in TimeColumns]

\* The file with header row hdr whose value column holds the cells vs, whose
\* time column follows pat and whose other columns hold 1.
GenFile(hdr, vs, pat, long) ==
    File(hdr,
         [i \in 1..Len(vs) |->
             [h \in Range(hdr) |->
                 IF h \in TimeColumns THEN TimeCell(pat, i)
                 ELSE IF h = ValueColumn(hdr) THEN vs[i]
                 ELSE Num(1)]],
         long)

\* all sequences over S of length at most n
SeqsUpTo(S, n) == UNION {[1..k -> S] : k \in 0..n}

GenFiles ==
    {Unreadable} \cup
    {GenFile(hdr, vs, pat, long) :
        hdr \in HeaderRows, vs \in SeqsUpTo(ValueCells, MaxRows),
        pat \in TimePatterns, long \in BOOLEAN}

\* power readings 2, 3, 4 W in "SYSTEM_POWER (Watts)", sampled every 0.5 s:
\* with a Delta column of 0, 500, 1000 ms, and with no time column at all
ExamplePower ==
    {GenFile(<<"Delta", "SYSTEM_POWER (Watts)">>, <<Num(2), Num(3), Num(4)>>,
             "uniform", FALSE),
     GenFile(<<"SYSTEM_POWER (Watts)">>, <<Num(2), Num(3), Num(4)>>,
             "uniform", FALSE)}

-----------------------------------------------------------------------------
(* config.py and the command line *)

\* CONFIGS: name, browser, platform and speed (in tenths) of the eight
\* configurations
CONFIGS ==
    <<[name |-> "chrome_spotify_1x",
       browser |-> "chrome", platform |-> "spotify", speed |-> 10],
      [name |-> "chrome_spotify_2x",
       browser |-> "chrome", platform |-> "spotify", speed |-> 20],
      [name |-> "brave_spotify_1x",
       browser |-> "brave",  platform |-> "spotify", speed |-> 10],
      [name |-> "brave_spotify_2x",
       browser |-> "brave",  platform |-> "spotify", speed |-> 20],
      [name |-> "chrome_apple_1x",
       browser |-> "chrome", platform |-> "apple", speed |-> 10],
      [name |-> "chrome_apple_2x",
       browser |-> "chrome", platform |-> "apple", speed |-> 20],
      [name |-> "brave_apple_1x",
       browser |-> "brave",  platform |-> "apple", speed |-> 10],
      [name |-> "brave_apple_2x",
       browser |-> "brave",  platform |-> "apple", speed |-> 20]>>

\* the values of --config the model runs: omitted, two names, an unknown name
ConfigArgs == {<<>>, <<"chrome_spotify_2x">>, <<"brave_apple_1x">>, <<"no_such_config">>}

\* platform.system()
OsNames == {"Linux", "Darwin", "Windows"}

IsNamed(c) == c.name = args_config[1]

\* configs_to_run of main(); without --config the first MaxConfigs of CONFIGS
configs_to_run ==
    IF args_config = <<>>
    THEN SubSeq(CONFIGS, 1, IF MaxConfigs < Len(CONFIGS) THEN MaxConfigs ELSE Len(CONFIGS))
    ELSE SelectSeq(CONFIGS, IsNamed)

\* the config of the running trial
config == configs_to_run[cfg_i]

-----------------------------------------------------------------------------
(* Exceptions *)

NoExc == [kind |-> "none", text |-> ""]

\* an instance of a subclass of Exception, str(e) = text
Exc(text) == [kind |-> "Exception", text |-> text]

\* KeyboardInterrupt: a BaseException that "except Exception" does not catch
Cancel == [kind |-> "KeyboardInterrupt", text |-> ""]

-----------------------------------------------------------------------------
(* The files the sampler, or an earlier batch, may have left at the output path *)

OutputFiles ==
    {GenFile(<<"Time", "PACKAGE_ENERGY (J)">>, <<Num(0), Num(2)>>, "uniform", FALSE),
     GenFile(<<"Delta", "SYSTEM_POWER (Watts)">>, <<Num(2), Num(1)>>, "uniform", FALSE),
     GenFile(<<"Time", "CPU_ENERGY (J)">>, <<Num(1), Num(2)>>, "uniform", FALSE),
     GenFile(<<"Time", "PACKAGE_ENERGY (J)">>, <<>>, "uniform", FALSE),
     GenFile(<<"Time", "CPU_USAGE_0">>, <<Num(1), Num(1)>>, "uniform", FALSE),
     GenFile(<<"Time", "PACKAGE_ENERGY (J)">>, <<BadCell, BadCell>>, "uniform", FALSE),
     GenFile(<<"Time", "PACKAGE_ENERGY (J)">>, <<Num(1), NoneCell>>, "uniform", FALSE),
     Unreadable}

-----------------------------------------------------------------------------
(* EnergyProfiler *)

\* EnergyProfiler.__init__ before the binary check
NewProfiler(dry_run) == [dry_run |-> dry_run, _proc |-> FALSE, _output_file |-> <<>>]

\* what stop returns in dry-run mode
DrySummary == [dry_run |-> TRUE, total_energy_joules |-> <<>>, samples |-> 0]

\* the call that asks the process to end: terminate() on Windows, else SIGINT
GracefulSignal == IF os_name = "Windows" THEN "terminate" ELSE "sigint"

\* the command line: sudo -n in front on Linux
LaunchEvent == IF os_name = "Linux" THEN "popen_sudo" ELSE "popen"

\* StartRuns without the dry-run return: the process is launched regardless
StartRuns_NoDryRunReturn(p, path) ==
    {[profiler |-> [p EXCEPT !._output_file = <<path>>, !._proc = TRUE],
      proc_state |-> "running", events |-> <<LaunchEvent, "probe">>, exc |-> NoExc]}

\* EnergyProfiler.start(output_csv) on profiler p: each way it can run, as the
\* profiler and process it leaves, the operations it performed and the
\* exception it raised.
\*   popen_raises  Popen itself raises (no such executable)
\*   exited_early  the process has exited at the probe: RuntimeError
\*   running       the process is alive at the probe
\*   cancel        KeyboardInterrupt during the sleep before the probe
\*   sudo_refused  on Linux, sudo -n cannot elevate without a password and
\*                 exits with an error: exited_early, the launched process
\*                 being sudo
StartRuns(p, path) ==
    LET q == [p EXCEPT !._output_file = <<path>>]
    IN  IF p.dry_run
        THEN {[profiler |-> q, proc_state |-> "none", events |-> <<>>, exc |-> NoExc]}
        ELSE {[profiler |-> q, proc_state |-> "none", events |-> <<>>,
               exc |-> Exc("Popen failed")],
              [profiler |-> [q EXCEPT !._proc = TRUE], proc_state |-> "exited",
               events |-> <<LaunchEvent, "probe">>,
               exc |-> Exc("EnergyBridge failed to start")],
              [profiler |-> [q EXCEPT !._proc = TRUE], proc_state |-> "running",
               events |-> <<LaunchEvent, "probe">>, exc |-> NoExc],
              [profiler |-> [q EXCEPT !._proc = TRUE], proc_state |-> "running",
               events |-> <<LaunchEvent>>, exc |-> Cancel]}
             \cup
             (IF os_name = "Linux"
              THEN {[profiler |-> [q EXCEPT !._proc = TRUE], proc_state |-> "exited",
                     events |-> <<LaunchEvent, "sudo_refused", "probe">>,
                     exc |-> Exc("EnergyBridge failed to start")]}
              ELSE {})

\* Terminations without the inner try around kill(): its exception leaves stop
Terminations_KillRaises(ps) ==
    {[events |-> <<GracefulSignal, "proc_wait">>, proc_state |-> "exited", exc |-> NoExc]}
    \cup
    (IF ps = "running"
     THEN {[events |-> <<GracefulSignal, "delivered", "proc_wait", "kill">>,
            proc_state |-> "exited", exc |-> NoExc],
           [events |-> <<GracefulSignal, "delivered", "proc_wait", "kill">>,
            proc_state |-> "running", exc |-> Exc("kill failed")]}
     ELSE {})

\* Terminations with kill() outside the except clause: it follows every wait
Terminations_KillAlways(ps) ==
    {[events |-> <<GracefulSignal, "proc_wait", "kill">>, proc_state |-> "exited",
      exc |-> NoExc]}
    \cup
    (IF ps = "running"
     THEN {[events |-> <<GracefulSignal, "delivered", "proc_wait", "kill">>,
            proc_state |-> "exited", exc |-> NoExc],
           [events |-> <<GracefulSignal, "kill">>,
            proc_state |-> "exited", exc |-> NoExc]}
     ELSE {})

\* The try/except/finally of stop on a held process in state ps: the calls
\* made ("sigint" or "terminate", "proc_wait", "kill"), "delivered" when the
\* signal reached a live process, the state the process is left in and
\* whether a KeyboardInterrupt passed through.  On a process that has exited
\* the signal call does nothing and wait returns at once.
\*   graceful       the process exits within the 10 s wait
\*   timeout        wait times out: kill()
\*   signal error   send_signal/terminate raises: kill()
\*   kill error     kill() raises too, which is swallowed
Terminations(ps) ==
    {[events |-> <<GracefulSignal, "proc_wait">>, proc_state |-> "exited", exc |-> NoExc]}
    \cup
    (IF ps = "running"
     THEN {[events |-> <<GracefulSignal, "delivered", "proc_wait">>,
            proc_state |-> "exited", exc |-> NoExc],
           [events |-> <<GracefulSignal, "delivered", "proc_wait", "kill">>,
            proc_state |-> "exited", exc |-> NoExc],
           [events |-> <<GracefulSignal, "delivered", "proc_wait", "kill">>,
            proc_state |-> "running", exc |-> NoExc],
           [events |-> <<GracefulSignal, "kill">>,
            proc_state |-> "exited", exc |-> NoExc],
           [events |-> <<GracefulSignal, "kill">>,
            proc_state |-> "running", exc |-> NoExc],
           [events |-> <<GracefulSignal, "delivered", "proc_wait">>,
            proc_state |-> "running", exc |-> Cancel]}
     ELSE {})

\* "Parse CSV" at the end of stop, the file at the output path being f
ParseOutput(p, f) ==
    IF p._output_file # <<>> /\ f.exists
    THEN LET r == ParseCsv(f)
         IN  [events |-> <<"parse">>,
              exc |-> IF r.exc = <<>> THEN NoExc ELSE Exc(r.exc[1]),
              ret |-> r.ret]
    ELSE [events |-> <<>>, exc |-> NoExc, ret |-> <<>>]

\* StopRuns with the test for a held process made before the dry-run test
StopRuns_ProcTestFirst(p, ps, force) ==
    IF ~p._proc
    THEN {[profiler |-> p, proc_state |-> ps, csv |-> csv, events |-> <<>>,
           exc |-> NoExc, ret |-> <<>>]}
    ELSE {[profiler |-> p, proc_state |-> ps, csv |-> csv, events |-> <<>>,
           exc |-> NoExc, ret |-> <<DrySummary>>]}

\* StopRuns without the finally clause: the handle is cleared only when
\* the termination raised nothing
StopRuns_NoFinally(p, ps, force) ==
    IF p.dry_run
    THEN {[profiler |-> p, proc_state |-> ps, csv |-> csv, events |-> <<>>,
           exc |-> NoExc, ret |-> <<DrySummary>>]}
    ELSE IF ~p._proc
    THEN {[profiler |-> p, proc_state |-> ps, csv |-> csv, events |-> <<>>,
           exc |-> NoExc, ret |-> <<>>]}
    ELSE {LET out == ParseOutput(p, f)
          IN  IF t.exc # NoExc
              THEN [profiler |-> p, proc_state |-> t.proc_state,
                    csv |-> f, events |-> t.events, exc |-> t.exc, ret |-> <<>>]
              ELSE [profiler |-> [p EXCEPT !._proc = FALSE], proc_state |-> t.proc_state,
                    csv |-> f, events |-> t.events \o out.events,
                    exc |-> out.exc, ret |-> out.ret]
          : t \in Terminations(ps), f \in OutputFiles \cup {NoFile}}

\* StopRuns with a force argument that is used: a forced stop kills the
\* process at once and parses nothing
StopRuns_ForceKills(p, ps, force) ==
    IF p.dry_run
    THEN {[profiler |-> p, proc_state |-> ps, csv |-> csv, events |-> <<>>,
           exc |-> NoExc, ret |-> <<DrySummary>>]}
    ELSE IF ~p._proc
    THEN {[profiler |-> p, proc_state |-> ps, csv |-> csv, events |-> <<>>,
           exc |-> NoExc, ret |-> <<>>]}
    ELSE IF force
    THEN {[profiler |-> [p EXCEPT !._proc = FALSE], proc_state |-> "exited",
           csv |-> f, events |-> <<"kill">>, exc |-> NoExc, ret |-> <<>>]
          : f \in OutputFiles \cup {NoFile}}
    ELSE {LET out == ParseOutput(p, f)
          IN  IF t.exc # NoExc
              THEN [profiler |-> [p EXCEPT !._proc = FALSE], proc_state |-> t.proc_state,
                    csv |-> f, events |-> t.events, exc |-> t.exc, ret |-> <<>>]
              ELSE [profiler |-> [p EXCEPT !._proc = FALSE], proc_state |-> t.proc_state,
                    csv |-> f, events |-> t.events \o out.events,
                    exc |-> out.exc, ret |-> out.ret]
          : t \in Terminations(ps), f \in OutputFiles \cup {NoFile}}

\* EnergyProfiler.stop(force) on profiler p whose process is in state ps: each
\* way it can run.  ret is the value returned (<<>>: None) when exc is NoExc.
StopRuns(p, ps, force) ==
    IF p.dry_run
    THEN {[profiler |-> p, proc_state |-> ps, csv |-> csv, events |-> <<>>,
           exc |-> NoExc, ret |-> <<DrySummary>>]}
    ELSE IF ~p._proc
    THEN {[profiler |-> p, proc_state |-> ps, csv |-> csv, events |-> <<>>,
           exc |-> NoExc, ret |-> <<>>]}
    ELSE {LET out == ParseOutput(p, f)
          IN  IF t.exc # NoExc
              THEN [profiler |-> [p EXCEPT !._proc = FALSE], proc_state |-> t.proc_state,
                    csv |-> f, events |-> t.events, exc |-> t.exc, ret |-> <<>>]
              ELSE [profiler |-> [p EXCEPT !._proc = FALSE], proc_state |-> t.proc_state,
                    csv |-> f, events |-> t.events \o out.events,
                    exc |-> out.exc, ret |-> out.ret]
          : t \in Terminations(ps), f \in OutputFiles \cup {NoFile}}

-----------------------------------------------------------------------------
(* BrowserController *)

\* BrowserController.__init__
NewController == [_playwright |-> FALSE, _context |-> FALSE]

\* BrowserController.setup(): each way it can run, as the controller fields
\* it leaves set and the exception it raised.  The Spotify session file is
\* looked for, read (json.load) and injected after the browser is launched.
SetupRuns(platform) ==
    {[controller |-> [_playwright |-> TRUE, _context |-> TRUE], exc |-> NoExc],
     [controller |-> [_playwright |-> FALSE, _context |-> FALSE],
      exc |-> Exc("playwright failed to start")],
     [controller |-> [_playwright |-> TRUE, _context |-> FALSE],
      exc |-> Exc("browser launch failed")],
     [controller |-> [_playwright |-> TRUE, _context |-> TRUE],
      exc |-> Exc("navigation failed")],
     [controller |-> [_playwright |-> TRUE, _context |-> TRUE], exc |-> Cancel]}
    \cup
    (IF platform = "spotify"
     THEN {[controller |-> [_playwright |-> TRUE, _context |-> TRUE],
            exc |-> Exc("spotify_session.json not found")],
           [controller |-> [_playwright |-> TRUE, _context |-> TRUE],
            exc |-> Exc("spotify_session.json unusable")]}
     ELSE {})

\* BrowserController.teardown(): it resets the fields, or close()/stop()
\* raises and the fields stay set; with nothing set there is nothing to raise
TeardownRuns(c) ==
    {[controller |-> NewController, exc |-> NoExc]}
    \cup
    (IF c._context \/ c._playwright
     THEN {[controller |-> c, exc |-> Exc("teardown failed")]}
     ELSE {})

-----------------------------------------------------------------------------
(* BrowserController: the speed label and its normalisation                *)
(*                                                                         *)
(* A label is the sequence of its characters; "mul" stands for the         *)
(* multiplication sign.  A speed is held in tenths (1.0 is 10).            *)

\* how many polls of a locate loop fit before its deadline
MaxPolls == 2
\* the largest scroll offset of a menu, in scroll steps of 0.9 clientHeight
MaxScroll == 15

\* range(14): the iterations of each sweep of the option search
SWEEP_STEPS == 14

DigitChars == <<"0", "1", "2", "3", "4", "5", "6", "7", "8", "9">>

\* f"{target_speed:g}x": "1x" for 1.0, "1.5x" for 1.5
TargetLabel(target_speed) ==
    IF target_speed % 10 = 0
    THEN <<DigitChars[(target_speed \div 10) + 1], "x">>
    ELSE <<DigitChars[(target_speed \div 10) + 1], ".",
           DigitChars[(target_speed % 10) + 1], "x">>

RECURSIVE LStrip(_)
LStrip(s) == IF s # <<>> /\ Head(s) = " " THEN LStrip(Tail(s)) ELSE s

RECURSIVE RStrip(_)
RStrip(s) == IF s # <<>> /\ s[Len(s)] = " "
             THEN RStrip(SubSeq(s, 1, Len(s) - 1)) ELSE s

\* str.strip() / String.trim()
Strip(s) == RStrip(LStrip(s))

\* str.lower()
Lower(s) == [i \in 1..Len(s) |-> CASE s[i] = "X" -> "x"
                                   [] s[i] = "S" -> "s"
                                   [] OTHER -> s[i]]

\* str.replace(a, b) for single characters
Replace(s, a, b) == [i \in 1..Len(s) |-> IF s[i] = a THEN b ELSE s[i]]

NotSpace(c) == c # " "

\* norm with the lower() left out
norm_CaseSensitive(s) == SelectSeq(Replace(Strip(s), "mul", "x"), NotSpace)

\* norm / norm_label: strip, lower, the multiplication sign to "x", spaces out
norm(s) == SelectSeq(Replace(Lower(Strip(s)), "mul", "x"), NotSpace)

RECURSIVE Collapse(_)
Collapse(s) ==
    IF Len(s) < 2 THEN s
    ELSE IF s[1] = " " /\ s[2] = " " THEN Collapse(Tail(s))
    ELSE <<s[1]>> \o Collapse(Tail(s))

\* the norm of the page scripts: s.replace(/\s+/g, ' ').trim()
JsNorm(s) == Strip(Collapse(s))

AllDigits(s) == s # <<>> /\ \A i \in 1..Len(s) : s[i] \in Range(DigitChars)

\* speed_re / label_re: ^\d+(?:\.\d+)?[x(mul)]$, ignoring case
SpeedRe(s) ==
    /\ Len(s) >= 2
    /\ s[Len(s)] \in {"x", "X", "mul"}
    /\ LET body == SubSeq(s, 1, Len(s) - 1)
       IN  \/ AllDigits(body)
           \/ \E k \in 2..(Len(body) - 1) :
                 /\ body[k] = "."
                 /\ AllDigits(SubSeq(body, 1, k - 1))
                 /\ AllDigits(SubSeq(body, k + 1, Len(body)))

-----------------------------------------------------------------------------
(* The page the controller drives *)

\* textContent of the element that shows the speed, <<>> when there is none
LabelTexts ==
    {<<>>,
     <<"1", "x">>, <<"2", "X">>, <<" ", "2", "x", " ">>, <<"1", "mul">>,
     <<"1", ".", "0", "x">>, <<"2", " ", "x">>, <<"S">>}

\* inner_text of the option the menu offers
OptionTexts == {<<"1", "x">>, <<"2", "mul">>}

\* A menu: whether its container is visible (is_visible true, false, or
\* raising), its largest scroll offset, its scroll offset when opened, the
\* offset at which the option is shown, the option's text, whether a click
\* on the option goes through.
\* A container that is not visible does not scroll: the option is shown at
\* the offset the menu has (0) or not at all (1).
MenusUpTo(n) ==
    {[visible |-> "yes", scroll_max |-> n, scroll_top |-> p, opt_at |-> q,
      opt_text |-> t, click_ok |-> c] :
        p \in 0..n, q \in 0..n, t \in OptionTexts, c \in BOOLEAN}
    \cup
    {[visible |-> v, scroll_max |-> 0, scroll_top |-> 0, opt_at |-> q,
      opt_text |-> t, click_ok |-> c] :
        v \in {"no", "error"}, q \in 0..1, t \in OptionTexts, c \in BOOLEAN}

\* the most buttons of a page that carry an aria-label
MaxButtons == 2

\* play_selectors of _play_and_set_speed_apple, in the order of the list
PlaySelectors ==
    <<"button-base:has-text(Play)", "button:has-text(Play)",
      "button[aria-label=Play]", "button[aria-label=Play Episode]",
      "button[aria-label*=Play]", ".web-chrome-playback-controls__play">>

\* aria-label of a button of the page
ButtonLabels ==
    {<<"P", "l", "a", "y">>, <<" ", "P", "l", "a", "y">>,
     <<"P", "a", "u", "s", "e">>, <<>>}

\* The play controls of a page.  selectors: for each of PlaySelectors, whether
\* its first element stays hidden for the 4 s of wait_for ("hidden"), becomes
\* visible and takes the click ("ok"), or becomes visible and click() raises
\* ("fails").  buttons: the aria-labels of the page's buttons, in document
\* order.
PlayControlsUpTo(n) ==
    {[selectors |-> sel, buttons |-> <<>>] :
        sel \in [1..Len(PlaySelectors) -> {"hidden", "ok", "fails"}]}
    \cup
    {[selectors |-> [k \in 1..Len(PlaySelectors) |-> "hidden"], buttons |-> b] :
        b \in UNION {[1..k -> ButtonLabels] : k \in 0..n}}

\* a page without a play control, and one whose play control takes the click
NoPlay ==
    [selectors |-> [k \in 1..Len(PlaySelectors) |-> "hidden"],
     buttons |-> <<<<"P", "a", "u", "s", "e">>>>]
PlainPlay ==
    [selectors |-> [k \in 1..Len(PlaySelectors) |-> IF k = 1 THEN "ok" ELSE "hidden"],
     buttons |-> <<<<"P", "l", "a", "y">>>>]

\* a page on which every step works with a menu whose option is in view
PlainMenu ==
    [visible |-> "yes", scroll_max |-> 0, scroll_top |-> 0, opt_at |-> 0,
     opt_text |-> <<"1", "x">>, click_ok |-> TRUE]

\* the page was closed: every page call raises
ClosedPage ==
    [closed |-> TRUE, play_control |-> FALSE, audio |-> FALSE, label |-> <<>>,
     label_after |-> 1, clickable |-> FALSE, menu |-> PlainMenu,
     controls |-> NoPlay]

\* The open pages with menus of scroll range n: whether a play control is
\* found (and the controls, plain ones), whether the page holds an audio element once play was clicked,
\* the speed label's text, the poll from which it is present (MaxPolls + 1:
\* after the deadline), whether the script's click on the label hits an
\* element, the menu the click opens.
PagesUpTo(n) ==
    {[closed |-> FALSE, play_control |-> pl, audio |-> au, label |-> l,
      label_after |-> a, clickable |-> k, menu |-> m,
      controls |-> IF pl THEN PlainPlay ELSE NoPlay] :
        pl \in BOOLEAN, au \in BOOLEAN, l \in LabelTexts,
        a \in 1..(MaxPolls + 1), k \in BOOLEAN, m \in MenusUpTo(n)}

-----------------------------------------------------------------------------
(* BrowserController: setting the speed through the UI                     *)
(*                                                                         *)
(* Each procedure is the record of what it returned and the page           *)
(* operations it performed, in order: "locate" (one evaluation of the      *)
(* locate script), "label_click", "query" (one try_click round),           *)
(* "option_click", "option_click_failed" (the click raised), "scroll_up",  *)
(* "scroll_down", "escape", "play_click", "dismiss_modal", "dump_buttons"  *)
(* and the waits "wait_<ms>".                                              *)

\* the locate script at the given poll: the normalised text of a visible
\* element that matches the speed pattern, <<>> for null
FindSpeed(pg, poll) ==
    IF pg.label # <<>> /\ poll >= pg.label_after /\ SpeedRe(JsNorm(pg.label))
    THEN <<JsNorm(pg.label)>>
    ELSE <<>>

\* LocateFrom without the wait between two polls
RECURSIVE LocateFrom_NoWait(_, _)
LocateFrom_NoWait(pg, poll) ==
    IF poll > MaxPolls THEN [current |-> <<>>, events |-> <<>>]
    ELSE LET cur == FindSpeed(pg, poll)
         IN  IF cur # <<>> /\ SpeedRe(cur[1])
             THEN [current |-> cur, events |-> <<"locate">>]
             ELSE LET rest == LocateFrom_NoWait(pg, poll + 1)
                  IN  [current |-> rest.current,
                       events  |-> <<"locate">> \o rest.events]

\* The locate loop from the given poll on: evaluate, stop on a label that
\* matches, else wait 250 ms and evaluate again until the deadline.
RECURSIVE LocateFrom(_, _)
LocateFrom(pg, poll) ==
    IF poll > MaxPolls THEN [current |-> <<>>, events |-> <<>>]
    ELSE LET cur == FindSpeed(pg, poll)
         IN  IF cur # <<>> /\ SpeedRe(cur[1])
             THEN [current |-> cur, events |-> <<"locate">>]
             ELSE LET rest == LocateFrom(pg, poll + 1)
                  IN  [current |-> rest.current,
                       events  |-> <<"locate", "wait_250">> \o rest.events]

\* try_click without the comparison with the wanted text: the shown option
\* is clicked whatever it says
TryClick_AnyOption(menu, pos, want) ==
    IF pos = menu.opt_at
    THEN IF menu.click_ok
         THEN [found |-> TRUE, events |-> <<"query", "option_click">>]
         ELSE [found |-> FALSE, events |-> <<"query", "option_click_failed">>]
    ELSE [found |-> FALSE, events |-> <<"query">>]

\* try_click() with the menu at offset pos: the option is clicked when it is
\* shown and its normalised text is the wanted one; a click that raises is
\* swallowed and the round reports nothing found
TryClick(menu, pos, want) ==
    IF pos = menu.opt_at /\ norm(menu.opt_text) = want
    THEN IF menu.click_ok
         THEN [found |-> TRUE, events |-> <<"query", "option_click">>]
         ELSE [found |-> FALSE, events |-> <<"query", "option_click_failed">>]
    ELSE [found |-> FALSE, events |-> <<"query">>]

\* one scroll step: up by a step, not above 0; down by a step, the browser
\* keeping the offset within the menu
ScrollTo(menu, pos, dir) ==
    IF dir = "up" THEN Max0(pos - 1)
    ELSE IF pos < menu.scroll_max THEN pos + 1 ELSE pos

ScrollEvent(dir) == IF dir = "up" THEN "scroll_up" ELSE "scroll_down"

\* Sweep scrolling against its direction: the first sweep goes down, the
\* second up
RECURSIVE Sweep_DownFirst(_, _, _, _, _, _)
Sweep_DownFirst(site, menu, pos, dir, n, want) ==
    LET back == IF dir = "up" THEN "down" ELSE "up"
    IN  IF n = 0 \/ menu.visible = "error" \/ (menu.visible = "no" /\ site = "apple")
        THEN [found |-> FALSE, pos |-> pos, events |-> <<>>]
        ELSE LET p  == IF menu.visible = "yes" THEN ScrollTo(menu, pos, back) ELSE pos
                 q  == TryClick(menu, p, want)
                 ev == (IF menu.visible = "yes" THEN <<ScrollEvent(back)>> ELSE <<>>)
                       \o <<"wait_120">> \o q.events
             IN  IF q.found THEN [found |-> TRUE, pos |-> p, events |-> ev]
                 ELSE LET rest == Sweep_DownFirst(site, menu, p, dir, n - 1, want)
                      IN  [found |-> rest.found, pos |-> rest.pos,
                           events |-> ev \o rest.events]

\* One sweep loop with n iterations left.  An iteration scrolls the menu
\* when it is visible, waits and queries.  is_visible raising ends the loop;
\* a hidden menu ends the Apple loop, and the Spotify loop goes on without
\* scrolling.
RECURSIVE Sweep(_, _, _, _, _, _)
Sweep(site, menu, pos, dir, n, want) ==
    IF n = 0 \/ menu.visible = "error" \/ (menu.visible = "no" /\ site = "apple")
    THEN [found |-> FALSE, pos |-> pos, events |-> <<>>]
    ELSE LET p  == IF menu.visible = "yes" THEN ScrollTo(menu, pos, dir) ELSE pos
             q  == TryClick(menu, p, want)
             ev == (IF menu.visible = "yes" THEN <<ScrollEvent(dir)>> ELSE <<>>)
                   \o <<"wait_120">> \o q.events
         IN  IF q.found THEN [found |-> TRUE, pos |-> p, events |-> ev]
             ELSE LET rest == Sweep(site, menu, p, dir, n - 1, want)
                  IN  [found |-> rest.found, pos |-> rest.pos,
                       events |-> ev \o rest.events]

\* _click_speed_option_in_open_menu / _click_spotify_speed_option without
\* their first and last statements: the no-scroll attempt, the sweep up,
\* the sweep down
OptionSearch(site, menu, want) ==
    LET first == TryClick(menu, menu.scroll_top, want)
        up    == Sweep(site, menu, menu.scroll_top, "up", SWEEP_STEPS, want)
        down  == Sweep(site, menu, up.pos, "down", SWEEP_STEPS, want)
    IN  IF first.found THEN [ok |-> TRUE, events |-> first.events]
        ELSE IF up.found
        THEN [ok |-> TRUE, events |-> first.events \o up.events]
        ELSE [ok |-> down.found,
              events |-> first.events \o up.events \o down.events]

\* ClickSpeedOption with Spotify's Escape left out
ClickSpeedOption_NoEscape(site, menu, target_label) ==
    LET s == OptionSearch(site, menu, norm(target_label))
    IN  IF site = "spotify"
        THEN [ok |-> s.ok, events |-> <<"wait_200">> \o s.events]
        ELSE s

\* The option search of each site.  Spotify's waits 200 ms first and
\* presses Escape itself when nothing was clicked.
ClickSpeedOption(site, menu, target_label) ==
    LET s == OptionSearch(site, menu, norm(target_label))
    IN  IF site = "spotify"
        THEN [ok |-> s.ok,
              events |-> <<"wait_200">> \o s.events
                         \o (IF s.ok THEN <<>> ELSE <<"escape">>)]
        ELSE s

\* _set_apple_speed_via_ui / _set_spotify_speed_via_ui_in_player_bar
SetSpeed(site, target_speed, pg) ==
    LET target_label == TargetLabel(target_speed)
        loc == LocateFrom(pg, 1)
        s   == ClickSpeedOption(site, pg.menu, target_label)
    IN  IF loc.current = <<>> THEN [ok |-> FALSE, events |-> loc.events]
        ELSE IF norm(loc.current[1]) = norm(target_label)
        THEN [ok |-> TRUE, events |-> loc.events]
        ELSE IF ~pg.clickable THEN [ok |-> FALSE, events |-> loc.events]
        ELSE IF site = "spotify"
        THEN [ok |-> s.ok, events |-> loc.events \o <<"label_click">> \o s.events]
        ELSE [ok |-> s.ok,
              events |-> loc.events \o <<"label_click", "wait_200">> \o s.events
                         \o (IF s.ok THEN <<>> ELSE <<"escape">>)]

\* _wait_for_audio(timeout): poll for an audio element every 0.5 s until
\* the deadline.  No procedure of the controller calls it.
WaitForAudio(pg) ==
    IF pg.audio THEN [found |-> TRUE, events |-> <<"audio_poll">>]
    ELSE [found |-> FALSE,
          events |-> [i \in 1..(2 * MaxPolls) |->
                         IF i % 2 = 1 THEN "audio_poll" ELSE "sleep_500"]]

\* The loop over play_selectors from selector k on, and the test after it:
\* wait_for raising (the selector stays hidden) or click() raising goes on
\* to the next selector, a click that returns ends the loop, and the
\* buttons are dumped when nothing was clicked.
RECURSIVE ApplePlayFrom(_, _, _)
ApplePlayFrom(sel, k, clicked) ==
    IF k > Len(sel)
    THEN IF clicked THEN <<>> ELSE <<"dump_buttons">>
    ELSE IF sel[k] = "ok"
    THEN <<"play_click">>
    ELSE IF sel[k] = "fails"
    THEN <<"play_click_failed">> \o ApplePlayFrom(sel, k + 1, clicked)
    ELSE ApplePlayFrom(sel, k + 1, clicked)

\* btns.find(b => (b.getAttribute('aria-label') || '').trim() === 'Play')
HasPlayButton(buttons) ==
    \E k \in 1..Len(buttons) : Strip(buttons[k]) = <<"P", "l", "a", "y">>

\* the play click of each site: Apple dismisses the locale modal, clicks its
\* way through the play selectors and dumps the buttons when none was
\* clicked; Spotify clicks the button labelled Play when there is one
ClickPlay(site, pg) ==
    IF site = "apple"
    THEN <<"dismiss_modal">> \o ApplePlayFrom(pg.controls.selectors, 1, FALSE)
    ELSE IF HasPlayButton(pg.controls.buttons) THEN <<"play_click">> ELSE <<>>

\* the pages a trial meets: the closed page, and those with or without a
\* play control, a speed label ("1.0x"), a label the script can click and a
\* menu option equal to the target
TrialPages ==
    {ClosedPage} \cup
    {[closed |-> FALSE, play_control |-> pl, audio |-> TRUE, label |-> l,
      label_after |-> 1, clickable |-> k,
      menu |-> [PlainMenu EXCEPT !.opt_text = t],
      controls |-> IF pl THEN PlainPlay ELSE NoPlay] :
        pl \in BOOLEAN, l \in {<<>>, <<"1", ".", "0", "x">>}, k \in BOOLEAN,
        t \in OptionTexts}

\* what a start_playback call amounts to for the trial: it raised, it
\* returned with playback clicked and the speed set ("ok"), or it returned
\* after a UI step failed and was logged ("degraded")
Outcome(r) ==
    IF r.exc # NoExc THEN "raised"
    ELSE IF r.play /\ r.ok THEN "ok"
    ELSE "degraded"

\* PlayAndSetSpeed raising when the speed could not be set
PlayAndSetSpeed_RaiseOnFailure(site, target_speed, pg) ==
    IF pg.closed
    THEN [exc |-> Exc("page call failed"), play |-> FALSE, ok |-> FALSE,
          events |-> <<>>]
    ELSE LET s == SetSpeed(site, target_speed, pg)
         IN  [exc |-> IF s.ok THEN NoExc ELSE Exc("speed not set"),
              play |-> "play_click" \in Range(ClickPlay(site, pg)), ok |-> s.ok,
              events |-> ClickPlay(site, pg) \o <<"wait_800">> \o s.events]

\* _play_and_set_speed_apple / _play_and_set_speed_spotify: the play click,
\* 800 ms, the speed; a failed step is logged and the call returns.  On a
\* closed page the page call raises.
PlayAndSetSpeed(site, target_speed, pg) ==
    IF pg.closed
    THEN [exc |-> Exc("page call failed"), play |-> FALSE, ok |-> FALSE,
          events |-> <<>>]
    ELSE LET s == SetSpeed(site, target_speed, pg)
         IN  [exc |-> NoExc, play |-> "play_click" \in Range(ClickPlay(site, pg)),
              ok |-> s.ok,
              events |-> ClickPlay(site, pg) \o <<"wait_800">> \o s.events]

\* BrowserController.start_playback() in a trial: each way it can run over
\* the pages a trial meets, as its outcome and the exception it raised; a
\* KeyboardInterrupt may arrive during it
PlaybackRuns(platform, target_speed) ==
    {[playback |-> Outcome(PlayAndSetSpeed(platform, target_speed, pg)),
      exc |-> PlayAndSetSpeed(platform, target_speed, pg).exc] : pg \in TrialPages}
    \cup {[playback |-> "raised", exc |-> Cancel]}

-----------------------------------------------------------------------------
(* BrowserController: the page scripts that find and click the speed label *)
(*                                                                         *)
(* A document is the sequence of its elements in document order.  An       *)
(* element has its textContent, whether its box is larger than 2 x 2, the  *)
(* y of its box, and the root scope that holds it: 1, 2 or 3 for the       *)
(* site's first three roots, 0 for none of them.                           *)
(*   Apple    1 .web-chrome-playback-controls, 2 [data-testid*="playback"],*)
(*            3 footer, 4 document.body, which holds every element          *)
(*   Spotify  1 [data-testid="now-playing-bar"], 2 footer, 3 the last       *)
(*            fixed or sticky region near the bottom                        *)

\* the most elements of a document
MaxElems == 2
\* the y of an element's box: higher on the screen, lower on the screen
Heights == {1, 2}

\* textContent of the elements that look like a speed
SpeedTexts == {<<"1", "x">>, <<"2", "mul">>}

\* the elements: one that is no speed, and the speeds in every root, shown
\* or not, at every height
DomElements ==
    {[root |-> 0, text |-> <<"S">>, visible |-> TRUE, y |-> 1]}
    \cup
    {[root |-> r, text |-> t, visible |-> v, y |-> y] :
        r \in 0..3, t \in SpeedTexts, v \in BOOLEAN, y \in Heights}

DomsUpTo(n) == UNION {[1..k -> DomElements] : k \in 0..n}

\* LocateRoots with the roots in reverse order
LocateRoots_Reversed(site) == IF site = "apple" THEN <<4, 3, 2, 1>> ELSE <<3, 2, 1>>

\* the roots of the locate script that exist, in the order of the script
LocateRoots(site) == IF site = "apple" THEN <<1, 2, 3, 4>> ELSE <<1, 2, 3>>

\* the roots of the click script
ClickRoots(site) == IF site = "apple" THEN <<1, 2, 3, 4>> ELSE <<1, 2>>

\* root.querySelectorAll('*'): the positions of the root's elements
QueryAll(site, dom, root) ==
    SelectSeq([i \in 1..Len(dom) |-> i],
              LAMBDA i : dom[i].root = root \/ (site = "apple" /\ root = 4))

\* findSpeed(root) / findSpeedEl(root): the first element of the root whose
\* normalised text matches the speed pattern and whose box is larger than
\* 2 x 2, as <<position>>, <<>> for null
findSpeedEl(site, dom, root) ==
    LET hits == SelectSeq(QueryAll(site, dom, root),
                          LAMBDA i : SpeedRe(JsNorm(dom[i].text)) /\ dom[i].visible)
    IN  IF hits = <<>> THEN <<>> ELSE <<hits[1]>>

\* the locate script: the text found in the first root that has one
LocateScript(site, dom) ==
    LET found == SelectSeq(LocateRoots(site),
                           LAMBDA r : findSpeedEl(site, dom, r) # <<>>)
    IN  IF found = <<>> THEN [current |-> <<>>, root |-> 0, el |-> 0]
        ELSE LET i == findSpeedEl(site, dom, found[1])[1]
             IN  [current |-> <<JsNorm(dom[i].text)>>, root |-> found[1], el |-> i]

\* clickWithin with the matches sorted by ascending y
clickWithin_TopMost(site, dom, root, label) ==
    LET matches == SelectSeq(QueryAll(site, dom, root),
                             LAMBDA i : JsNorm(dom[i].text) = label)
        top == SelectSeq(matches,
                         LAMBDA i : \A k \in 1..Len(matches) :
                                       dom[matches[k]].y >= dom[i].y)
    IN  IF matches = <<>> THEN <<>> ELSE <<top[1]>>

\* clickWithin(root): the elements of the root whose normalised text is the
\* label, sorted by descending y (the sort is stable); the first is taken
\* and the click goes to it or to its nearest clickable ancestor.  <<>> when
\* the root has no such element.
clickWithin(site, dom, root, label) ==
    LET matches == SelectSeq(QueryAll(site, dom, root),
                             LAMBDA i : JsNorm(dom[i].text) = label)
        bottom == SelectSeq(matches,
                            LAMBDA i : \A k \in 1..Len(matches) :
                                          dom[matches[k]].y <= dom[i].y)
    IN  IF matches = <<>> THEN <<>> ELSE <<bottom[1]>>

\* the click script: clickWithin on each root in turn until one clicks
ClickScript(site, dom, label) ==
    LET done == SelectSeq(ClickRoots(site),
                          LAMBDA r : clickWithin(site, dom, r, label) # <<>>)
    IN  IF done = <<>> THEN [clicked |-> FALSE, root |-> 0, el |-> 0]
        ELSE [clicked |-> TRUE, root |-> done[1],
              el |-> clickWithin(site, dom, done[1], label)[1]]

-----------------------------------------------------------------------------
(* BrowserController: the climb from the matched element to a clickable one *)
(*                                                                         *)
(* The chain of an element is the element and its ancestors, the element   *)
(* first: for each, whether it is clickable (a button, role button,        *)
(* pointer cursor, an onclick handler or tabIndex 0) and whether its box   *)
(* is larger than 2 x 2.                                                   *)

\* the longest chain of an element
MaxChain == 7

\* for (let i=0; i<6 && cur; i++)
CLIMB_LEVELS == 6

ChainsUpTo(n) ==
    UNION {[1..k -> [clickable : BOOLEAN, visible : BOOLEAN]] : k \in 1..n}

\* ClimbFrom without the test of the box
RECURSIVE ClimbFrom_NoVisibleTest(_, _)
ClimbFrom_NoVisibleTest(chain, i) ==
    IF i < CLIMB_LEVELS /\ i + 1 <= Len(chain)
    THEN IF chain[i + 1].clickable
         THEN <<i + 1>>
         ELSE ClimbFrom_NoVisibleTest(chain, i + 1)
    ELSE <<1>>

\* The loop of clickWithin from iteration i on, cur being the element i
\* levels up, and the statement after it: the levels click() is called on.
\* The first clickable and shown element is clicked and the script returns;
\* after six levels, or past the top of the chain, the element itself is.
RECURSIVE ClimbFrom(_, _)
ClimbFrom(chain, i) ==
    IF i < CLIMB_LEVELS /\ i + 1 <= Len(chain)
    THEN IF chain[i + 1].clickable /\ chain[i + 1].visible
         THEN <<i + 1>>
         ELSE ClimbFrom(chain, i + 1)
    ELSE <<1>>

-----------------------------------------------------------------------------
(* ResultsManager *)

\* energy_filepath(config_name, run_id): the path is its two parts
energy_filepath(config_name, id) == <<config_name, id>>

\* the file save_trial writes to
trial_path(r) == <<r.config, r.run_id>>

-----------------------------------------------------------------------------
(* main() and run_single_trial() *)

\* the result dict run_single_trial starts with
NewResult ==
    [config |-> config.name, run_id |-> run_id, timestamp |-> "utc-iso",
     success |-> FALSE, energy_data |-> <<>>, error |-> <<>>]

Init ==
    /\ args_dry_run \in BOOLEAN
    /\ args_config \in ConfigArgs
    /\ os_name \in OsNames
    /\ pc = "main"
    /\ cfg_i = 1
    /\ run_id = 0
    /\ result = <<>>
    /\ pending = NoExc
    /\ profiler = NewProfiler(args_dry_run)
    /\ controller = NewController
    /\ proc_state = "none"
    /\ csv = NoFile
    /\ trace = <<>>
    /\ saved = {}
    /\ last_saved = <<>>
    /\ orphans = 0
    /\ open_sessions = 0
    /\ playback = "none"
    /\ parsed = <<>>
    /\ ui_platform = "none"
    /\ ui_speed = 10
    /\ ui_page = ClosedPage
    /\ ui_run = <<>>

\* main(), lines 112-123: select the configs; an unknown name exits with 1
SelectConfigs ==
    /\ pc = "main"
    /\ pc' = IF configs_to_run = <<>> THEN "exit1" ELSE "loop"
    /\ UNCHANGED <<args_dry_run, args_config, os_name, cfg_i, run_id, result,
                   pending, profiler, controller, proc_state, csv, trace, saved,
                   last_saved, orphans, open_sessions, playback, parsed, uiVars>>

\* main(), line 133, and run_single_trial lines 55-69: the call, the three
\* constructors and the result dict.  Without dry-run the profiler's
\* constructor checks for the binary and raises when it is missing: the
\* exception leaves run_single_trial and main.
CallTrial ==
    /\ pc = "loop"
    /\ cfg_i <= Len(configs_to_run)
    /\ orphans' = orphans + (IF proc_state = "running" THEN 1 ELSE 0)
    /\ open_sessions' = open_sessions + (IF controller._context THEN 1 ELSE 0)
    /\ proc_state' = "none"
    /\ profiler' = NewProfiler(args_dry_run)
    /\ controller' = NewController
    /\ csv' = NoFile
    /\ playback' = "none"
    /\ last_saved' = <<>>
    /\ \/ /\ pc' = "setup"
          /\ trace' = IF args_dry_run THEN <<>> ELSE <<"check">>
          /\ result' = NewResult
          /\ pending' = NoExc
       \/ /\ ~args_dry_run
          /\ pc' = "propagated"
          /\ trace' = <<"check">>
          /\ result' = <<>>
          /\ pending' = Exc("EnergyBridge binary not found")
    /\ UNCHANGED <<args_dry_run, args_config, os_name, cfg_i, run_id, saved, parsed, uiVars>>

\* AfterRaise with a bare try/finally: no exception reaches a handler
AfterRaise_NoHandler(e) == "finally"

\* an exception raised in the try body: to the handler when it is an
\* Exception, straight to the finally clause otherwise
AfterRaise(e) == IF e.kind = "Exception" THEN "except" ELSE "finally"

\* lines 72-73: controller.setup()
Setup ==
    /\ pc = "setup"
    /\ \E r \in SetupRuns(config.platform) :
          /\ controller' = r.controller
          /\ pending' = r.exc
          /\ pc' = IF r.exc = NoExc THEN "start" ELSE AfterRaise(r.exc)
    /\ trace' = Append(trace, "setup")
    /\ UNCHANGED <<args_dry_run, args_config, os_name, cfg_i, run_id, result,
                   profiler, proc_state, csv, saved, last_saved, orphans, open_sessions,
                   playback, parsed, uiVars>>

\* lines 75-77: profiler.start(energy_file)
StartSampler ==
    /\ pc = "start"
    /\ \E r \in StartRuns(profiler, energy_filepath(config.name, run_id)) :
          /\ profiler' = r.profiler
          /\ proc_state' = r.proc_state
          /\ trace' = trace \o <<"start">> \o r.events
          /\ pending' = r.exc
          /\ pc' = IF r.exc = NoExc THEN "playback" ELSE AfterRaise(r.exc)
    /\ UNCHANGED <<args_dry_run, args_config, os_name, cfg_i, run_id, result,
                   controller, csv, saved, last_saved, orphans, open_sessions, playback, parsed, uiVars>>

\* lines 79-80: controller.start_playback()
StartPlayback ==
    /\ pc = "playback"
    /\ \E r \in PlaybackRuns(config.platform, config.speed) :
          /\ playback' = r.playback
          /\ pending' = r.exc
          /\ pc' = IF r.exc = NoExc THEN "wait" ELSE AfterRaise(r.exc)
    /\ trace' = Append(trace, "play")
    /\ UNCHANGED <<args_dry_run, args_config, os_name, cfg_i, run_id, result,
                   profiler, controller, proc_state, csv, saved, last_saved,
                   orphans, open_sessions, parsed, uiVars>>

\* MeasureWait with the sleep left out: the stop follows playback at once
MeasureWait_NoSleep ==
    /\ pc = "wait"
    /\ pc' = "stop"
    /\ UNCHANGED <<args_dry_run, args_config, os_name, cfg_i, run_id, result,
                   pending, profiler, controller, proc_state, csv, trace, saved,
                   last_saved, orphans, open_sessions, playback, parsed, uiVars>>

\* lines 82-84: time.sleep(duration); the sleep runs its full length ("wait")
\* or a KeyboardInterrupt ends it
MeasureWait ==
    /\ pc = "wait"
    /\ \/ /\ trace' = Append(trace, "wait")
          /\ pending' = NoExc
          /\ pc' = "stop"
       \/ /\ trace' = Append(trace, "wait_interrupted")
          /\ pending' = Cancel
          /\ pc' = AfterRaise(Cancel)
    /\ UNCHANGED <<args_dry_run, args_config, os_name, cfg_i, run_id, result,
                   profiler, controller, proc_state, csv, saved, last_saved,
                   orphans, open_sessions, playback, parsed, uiVars>>

\* lines 86-89: energy_data = profiler.stop(); success = True
StopSampler ==
    /\ pc = "stop"
    /\ \E r \in StopRuns(profiler, proc_state, FALSE) :
          /\ profiler' = r.profiler
          /\ proc_state' = r.proc_state
          /\ csv' = r.csv
          /\ trace' = trace \o <<"stop">> \o r.events
          /\ pending' = r.exc
          /\ IF r.exc = NoExc
             THEN /\ result' = [result EXCEPT !.energy_data = r.ret, !.success = TRUE]
                  /\ pc' = "finally"
             ELSE /\ result' = result
                  /\ pc' = AfterRaise(r.exc)
    /\ UNCHANGED <<args_dry_run, args_config, os_name, cfg_i, run_id, controller,
                   saved, last_saved, orphans, open_sessions, playback, parsed, uiVars>>

\* Handler without the assignment of line 93: the error field stays None
Handler_NoError ==
    /\ pc = "except"
    /\ \E r \in StopRuns(profiler, proc_state, TRUE) :
          /\ profiler' = r.profiler
          /\ proc_state' = r.proc_state
          /\ csv' = r.csv
          /\ trace' = trace \o <<"stop_force">> \o r.events
          /\ pending' = r.exc
    /\ result' = result
    /\ pc' = "finally"
    /\ UNCHANGED <<args_dry_run, args_config, os_name, cfg_i, run_id, controller,
                   saved, last_saved, orphans, open_sessions, playback, parsed, uiVars>>

\* lines 91-94: except Exception as e: error = str(e); profiler.stop(force=True).
\* An exception of that stop leaves the handler and propagates.
Handler ==
    /\ pc = "except"
    /\ \E r \in StopRuns(profiler, proc_state, TRUE) :
          /\ profiler' = r.profiler
          /\ proc_state' = r.proc_state
          /\ csv' = r.csv
          /\ trace' = trace \o <<"stop_force">> \o r.events
          /\ pending' = r.exc
    /\ result' = [result EXCEPT !.error = <<pending.text>>]
    /\ pc' = "finally"
    /\ UNCHANGED <<args_dry_run, args_config, os_name, cfg_i, run_id, controller,
                   saved, last_saved, orphans, open_sessions, playback, parsed, uiVars>>

\* Finally with the teardown placed after the try statement instead of in a
\* finally clause: a propagating exception skips it
Finally_AfterTry ==
    /\ pc = "finally"
    /\ IF pending = NoExc
       THEN /\ \E r \in TeardownRuns(controller) : controller' = r.controller
            /\ trace' = Append(trace, "teardown")
            /\ pc' = "save"
       ELSE /\ controller' = controller
            /\ trace' = trace
            /\ pc' = "propagated"
    /\ UNCHANGED <<args_dry_run, args_config, os_name, cfg_i, run_id, result,
                   pending, profiler, proc_state, csv, saved, last_saved,
                   orphans, open_sessions, playback, parsed, uiVars>>

\* lines 96-100: finally: try: controller.teardown() except Exception: pass.
\* Then the statement ends, or the pending exception leaves run_single_trial
\* and, main catching nothing, the program.
Finally ==
    /\ pc = "finally"
    /\ \E r \in TeardownRuns(controller) : controller' = r.controller
    /\ trace' = Append(trace, "teardown")
    /\ pc' = IF pending = NoExc THEN "save" ELSE "propagated"
    /\ UNCHANGED <<args_dry_run, args_config, os_name, cfg_i, run_id, result,
                   pending, profiler, proc_state, csv, saved, last_saved,
                   orphans, open_sessions, playback, parsed, uiVars>>

\* line 102: results_mgr.save_trial(result)
SaveTrial ==
    /\ pc = "save"
    /\ saved' = saved \cup {trial_path(result)}
    /\ last_saved' = <<result>>
    /\ trace' = Append(trace, "save")
    /\ pc' = "return"
    /\ UNCHANGED <<args_dry_run, args_config, os_name, cfg_i, run_id, result,
                   pending, profiler, controller, proc_state, csv, orphans, open_sessions,
                   playback, parsed, uiVars>>

\* lines 104-108 and the loops of main, lines 126-134: cool down, return,
\* next run_id or next config
Return ==
    /\ pc = "return"
    /\ pc' = "loop"
    /\ IF run_id + 1 < Runs
       THEN /\ run_id' = run_id + 1
            /\ cfg_i' = cfg_i
       ELSE /\ run_id' = 0
            /\ cfg_i' = cfg_i + 1
    /\ UNCHANGED <<args_dry_run, args_config, os_name, result, pending, profiler,
                   controller, proc_state, csv, trace, saved, last_saved,
                   orphans, open_sessions, playback, parsed, uiVars>>

\* lines 140-145: the loops are over: summary.json
Finish ==
    /\ pc = "loop"
    /\ cfg_i > Len(configs_to_run)
    /\ pc' = "done"
    /\ UNCHANGED <<args_dry_run, args_config, os_name, cfg_i, run_id, result,
                   pending, profiler, controller, proc_state, csv, trace, saved,
                   last_saved, orphans, open_sessions, playback, parsed, uiVars>>

Next ==
    \/ SelectConfigs
    \/ CallTrial
    \/ Setup
    \/ StartSampler
    \/ StartPlayback
    \/ MeasureWait
    \/ StopSampler
    \/ Handler
    \/ Finally
    \/ SaveTrial
    \/ Return
    \/ Finish

Spec == Init /\ [][Next]_vars

-----------------------------------------------------------------------------
(* _parse_csv on its own *)

ParseInit ==
    /\ csv \in GenFiles \cup ExamplePower
    /\ parsed = <<>>
    /\ args_dry_run = FALSE
    /\ args_config = <<>>
    /\ os_name = "Linux"
    /\ pc = "parse"
    /\ cfg_i = 1
    /\ run_id = 0
    /\ result = <<>>
    /\ pending = NoExc
    /\ profiler = NewProfiler(FALSE)
    /\ controller = NewController
    /\ proc_state = "none"
    /\ trace = <<>>
    /\ saved = {}
    /\ last_saved = <<>>
    /\ orphans = 0
    /\ open_sessions = 0
    /\ playback = "none"
    /\ ui_platform = "none"
    /\ ui_speed = 10
    /\ ui_page = ClosedPage
    /\ ui_run = <<>>

\* the call _parse_csv(filepath)
Parse ==
    /\ pc = "parse"
    /\ parsed = <<>>
    /\ parsed' = <<ParseCsv(csv)>>
    /\ UNCHANGED <<args_dry_run, args_config, os_name, pc, cfg_i, run_id, result,
                   pending, profiler, controller, proc_state, csv, trace, saved,
                   last_saved, orphans, open_sessions, playback, uiVars>>

ParseNext == Parse

ParseSpec == ParseInit /\ [][ParseNext]_vars

-----------------------------------------------------------------------------
(* start_playback and the option search on their own *)

\* config["speed"]: 1.0 and 2.0
Speeds == {10, 20}

\* the variables of the trial coordinator, at rest
TrialAtRest ==
    /\ args_dry_run = FALSE
    /\ args_config = <<>>
    /\ os_name = "Linux"
    /\ cfg_i = 1
    /\ run_id = 0
    /\ result = <<>>
    /\ pending = NoExc
    /\ profiler = NewProfiler(FALSE)
    /\ controller = NewController
    /\ proc_state = "none"
    /\ csv = NoFile
    /\ trace = <<>>
    /\ saved = {}
    /\ last_saved = <<>>
    /\ orphans = 0
    /\ open_sessions = 0
    /\ playback = "none"
    /\ parsed = <<>>

SpeedInit ==
    /\ ui_platform \in {"spotify", "apple"}
    /\ ui_speed \in Speeds
    /\ ui_page \in PagesUpTo(1) \cup {ClosedPage}
    /\ ui_run = <<>>
    /\ pc = "ui"
    /\ TrialAtRest

\* the call start_playback()
PlayAndSet ==
    /\ pc = "ui"
    /\ ui_run = <<>>
    /\ ui_run' = <<PlayAndSetSpeed(ui_platform, ui_speed, ui_page)>>
    /\ UNCHANGED <<args_dry_run, args_config, os_name, pc, cfg_i, run_id, result,
                   pending, profiler, controller, proc_state, csv, trace, saved,
                   last_saved, orphans, open_sessions, playback, parsed, ui_platform, ui_speed,
                   ui_page>>

SpeedNext == PlayAndSet

SpeedSpec == SpeedInit /\ [][SpeedNext]_vars

\* start_playback on pages with every kind of play control
PlayInit ==
    /\ ui_platform \in {"spotify", "apple"}
    /\ ui_speed \in Speeds
    /\ ui_page \in {[closed |-> FALSE,
                      play_control |-> "play_click" \in Range(ClickPlay(ui_platform,
                                                          [controls |-> c])),
                      audio |-> TRUE, label |-> l, label_after |-> 1,
                      clickable |-> TRUE, menu |-> PlainMenu, controls |-> c] :
                        l \in {<<>>, <<"2", "X">>}, c \in PlayControlsUpTo(MaxButtons)}
    /\ ui_run = <<>>
    /\ pc = "ui"
    /\ TrialAtRest

PlaySpec == PlayInit /\ [][SpeedNext]_vars

SearchInit ==
    /\ ui_platform \in {"spotify", "apple"}
    /\ ui_speed \in Speeds
    /\ ui_page \in {[closed |-> FALSE, play_control |-> TRUE, audio |-> TRUE,
                      label |-> <<"1", ".", "0", "x">>, label_after |-> 1,
                      clickable |-> TRUE, menu |-> m, controls |-> PlainPlay] :
                         m \in MenusUpTo(MaxScroll)}
    /\ ui_run = <<>>
    /\ pc = "search"
    /\ TrialAtRest

\* the call of the option search on the menu the label click opened
ClickOption ==
    /\ pc = "search"
    /\ ui_run = <<>>
    /\ ui_run' = <<ClickSpeedOption(ui_platform, ui_page.menu, TargetLabel(ui_speed))>>
    /\ UNCHANGED <<args_dry_run, args_config, os_name, pc, cfg_i, run_id, result,
                   pending, profiler, controller, proc_state, csv, trace, saved,
                   last_saved, orphans, open_sessions, playback, parsed, ui_platform, ui_speed,
                   ui_page>>

SearchNext == ClickOption

SearchSpec == SearchInit /\ [][SearchNext]_vars

-----------------------------------------------------------------------------
(* The locate and the click script on their own *)

DomInit ==
    /\ ui_platform \in {"spotify", "apple"}
    /\ ui_speed \in Speeds
    /\ ui_page \in DomsUpTo(MaxElems)
    /\ ui_run = <<>>
    /\ pc = "locate"
    /\ TrialAtRest

\* one evaluation of the locate script, and the tests that follow the loop:
\* no label, or the label of the target, ends the procedure
LocateLabel ==
    /\ pc = "locate"
    /\ LET loc == LocateScript(ui_platform, ui_page)
       IN  /\ ui_run' = <<loc>>
           /\ pc' = IF loc.current = <<>> THEN "absent"
                    ELSE IF norm(loc.current[1]) = norm(TargetLabel(ui_speed))
                    THEN "same"
                    ELSE "click"
    /\ UNCHANGED <<args_dry_run, args_config, os_name, cfg_i, run_id, result,
                   pending, profiler, controller, proc_state, csv, trace, saved,
                   last_saved, orphans, open_sessions, playback, parsed,
                   ui_platform, ui_speed, ui_page>>

\* the evaluation of the click script with the label that was found.  The
\* click is dispatched on the element taken ("self": it is clickable and
\* shown, or nothing on the way up is) or on the nearest clickable and shown
\* element among its first five ancestors ("ancestor").
ClickLabel ==
    /\ pc = "click"
    /\ LET c == ClickScript(ui_platform, ui_page, ui_run[1].current[1])
       IN  \E t \in (IF c.clicked THEN {"self", "ancestor"} ELSE {"none"}) :
              ui_run' = Append(ui_run, [clicked |-> c.clicked, root |-> c.root,
                                        el |-> c.el, target |-> t])
    /\ pc' = "clicked"
    /\ UNCHANGED <<args_dry_run, args_config, os_name, cfg_i, run_id, result,
                   pending, profiler, controller, proc_state, csv, trace, saved,
                   last_saved, orphans, open_sessions, playback, parsed,
                   ui_platform, ui_speed, ui_page>>

DomNext == LocateLabel \/ ClickLabel

DomSpec == DomInit /\ [][DomNext]_vars

-----------------------------------------------------------------------------
(* The climb on its own *)

ClimbInit ==
    /\ ui_platform \in {"spotify", "apple"}
    /\ ui_speed = 10
    /\ ui_page \in ChainsUpTo(MaxChain)
    /\ ui_run = <<>>
    /\ pc = "climb"
    /\ TrialAtRest

\* clickWithin from the element taken on: the climb and the click
Climb ==
    /\ pc = "climb"
    /\ ui_run' = <<ClimbFrom(ui_page, 0)>>
    /\ pc' = "climbed"
    /\ UNCHANGED <<args_dry_run, args_config, os_name, cfg_i, run_id, result,
                   pending, profiler, controller, proc_state, csv, trace, saved,
                   last_saved, orphans, open_sessions, playback, parsed,
                   ui_platform, ui_speed, ui_page>>

ClimbNext == Climb

ClimbSpec == ClimbInit /\ [][ClimbNext]_vars

-----------------------------------------------------------------------------
(* Properties of a trial *)

InTrace(e) == e \in Range(trace)

\* the try statement of the current trial is over
TryOver == pc \in {"save", "return", "propagated"}

\* the trial is inside its try statement, before the finally clause
InTry == pc \in {"setup", "start", "playback", "wait", "stop", "except", "finally"}

\* the steps of a trial, in the order of section 5 of the design
StepRank(e) ==
    CASE e = "setup" -> 1
      [] e = "start" -> 2
      [] e = "play" -> 3
      [] e \in {"wait", "wait_interrupted"} -> 4
      [] e = "stop" -> 5
      [] e = "stop_force" -> 6
      [] e = "teardown" -> 7
      [] e = "save" -> 8
      [] OTHER -> 0

IsStep(e) == StepRank(e) > 0

\* the steps the current trial has taken
StepTrace == SelectSeq(trace, IsStep)

\* every occurrence of b in the trace has an a before it
Precedes(a, b) ==
    \A i \in 1..Len(trace) : trace[i] = b => \E j \in 1..(i - 1) : trace[j] = a

\* the operations on the sampler: binary check, launch, probe, signals, parse
SamplerOps ==
    {"check", "popen", "popen_sudo", "probe", "sigint", "terminate",
     "delivered", "proc_wait", "kill", "parse"}

\* C1: in run_single_trial, teardown is invoked exactly once per trial,
\* whichever of setup, sampler start, playback start, the measurement wait or
\* sampler stop raised, and when none raised: once the try statement of a
\* trial that reached setup is over, teardown has been called exactly once,
\* and it is never called twice or before the try body is left.
C1_TeardownExactlyOnce ==
    /\ Count(trace, "teardown") <= 1
    /\ (TryOver /\ InTrace("setup")) => Count(trace, "teardown") = 1
    /\ (InTry /\ pc # "finally") => ~InTrace("teardown")

\* C1 witness: the stop in the failure handler raised, the exception left the
\* trial, and teardown had run once
C1_Witness ==
    /\ pc = "propagated"
    /\ pending.kind = "Exception"
    /\ InTrace("stop_force")
    /\ Count(trace, "teardown") = 1

\* C2: if any step of a trial fails or is cancelled, the sampler is stopped
\* (the profiler no longer holds the process) and teardown has been called
\* when the trial is over, before the next trial's setup; and an exception
\* of teardown itself does not stop the batch.
C2_FailureStopsSamplerAndTearsDown ==
    /\ (pc \in {"return", "propagated"} /\ InTrace("setup")
          /\ (pending # NoExc \/ result.error # <<>>))
       => (~profiler._proc /\ InTrace("teardown"))
    /\ (pc = "propagated" /\ InTrace("teardown")) => pending # NoExc

\* C3 (as amended): the steps a trial takes are in the order setup, sampler
\* start, playback start, measurement wait, sampler stop, teardown, each at
\* most once; the sampler process is launched before playback starts; the
\* stop of the normal path runs only after the full measurement wait; the
\* stop of the failure handler runs only after a step raised.
C3_StepOrder ==
    /\ \A i, j \in 1..Len(StepTrace) :
          i < j => StepRank(StepTrace[i]) < StepRank(StepTrace[j])
    /\ Precedes("start", "play")
    /\ (InTrace("play") /\ ~args_dry_run) => \E e \in {"popen", "popen_sudo"} : Precedes(e, "play")
    /\ Precedes("wait", "stop")
    /\ ~(InTrace("wait") /\ InTrace("wait_interrupted"))
    /\ (InTrace("stop_force") /\ pc # "finally") => result.error # <<>>
    /\ (InTrace("stop_force") /\ InTrace("wait")) => InTrace("stop")

\* C3 witness: a trial that took all six steps and signalled its sampler
C3_Witness ==
    /\ pc = "return"
    /\ StepTrace = <<"setup", "start", "play", "wait", "stop", "teardown", "save">>
    /\ InTrace("delivered")

\* C3 (original): the sampler is stopped only after the full measurement
\* wait has elapsed: no signal reaches the sampler process, and it is not
\* killed, in a trial whose wait has not run to its end.
C3_StopOnlyAfterFullWait ==
    \A e \in {"delivered", "kill"} : Precedes("wait", e)

\* the trial_XX.json files of a batch in which every trial was run
AllTrialKeys ==
    {<<configs_to_run[i].name, r>> : i \in 1..Len(configs_to_run), r \in 0..(Runs - 1)}

\* C4: a sampler or parsing failure aborts only its trial and the batch goes
\* on: no Exception ends the batch, and the batch ends with a record for
\* every run index 0..runs-1 of every selected configuration.
C4_BatchSurvivesTrialFailure ==
    /\ pc = "propagated" => pending.kind = "KeyboardInterrupt"
    /\ pc = "done" => saved = AllTrialKeys

\* C5: every trial that is started produces exactly one persisted record,
\* whatever failed, the stop inside the failure handler included: a trial
\* that entered its try statement and ended, other than by an interrupt, has
\* called save_trial exactly once with the six fields.
C5_OneRecordPerTrial ==
    /\ Count(trace, "save") <= 1
    /\ (pc \in {"return", "propagated"} /\ InTrace("setup")
          /\ pending.kind # "KeyboardInterrupt")
       => /\ Count(trace, "save") = 1
          /\ last_saved # <<>>
          /\ DOMAIN last_saved[1] =
                {"config", "run_id", "timestamp", "success", "energy_data", "error"}

\* C6: a dry-run trial whose setup and playback start return is recorded
\* with success = true and energy data whose total_energy_joules is null and
\* whose samples is 0; only an interrupt keeps it from being recorded.
C6_DryRunRecord ==
    /\ (args_dry_run /\ pc = "return" /\ playback \in {"ok", "degraded"})
       => /\ last_saved # <<>>
          /\ last_saved[1].success
          /\ last_saved[1].error = <<>>
          /\ last_saved[1].energy_data # <<>>
          /\ last_saved[1].energy_data[1].total_energy_joules = <<>>
          /\ last_saved[1].energy_data[1].samples = 0
    /\ (args_dry_run /\ pc = "propagated" /\ playback \in {"ok", "degraded"})
       => pending.kind = "KeyboardInterrupt"

\* C6 witness: a dry-run trial with playback started has been saved
C6_Witness ==
    /\ args_dry_run
    /\ pc = "return"
    /\ playback = "ok"
    /\ InTrace("stop")

\* C7: in dry-run mode no sampler process is launched, no binary check is
\* made, no signal is sent and no output file is parsed, across the
\* construction, start and stop of the profiler.
C7_DryRunSkipsSampler ==
    args_dry_run =>
        /\ Range(trace) \cap SamplerOps = {}
        /\ proc_state = "none"
        /\ ~profiler._proc
        /\ orphans = 0

\* C7 witness: a dry-run trial went through start and stop
C7_Witness ==
    /\ args_dry_run
    /\ pc = "return"
    /\ InTrace("start")
    /\ InTrace("stop")
    /\ cfg_i = 1 /\ run_id = 1

\* a file with a usable energy or power column: readable, with data rows, a
\* column selected and a number in it
UsableColumn(f) ==
    /\ f.exists
    /\ f.readable
    /\ f.rows # <<>>
    /\ LET sel == SelectColumns(Headers(f))
           col == sel.energy_col \o sel.power_col
       IN  /\ sel.exc = <<>>
           /\ col # <<>>
           /\ \E i \in 1..Len(f.rows) : FloatOk(f.rows[i][col[1]])

\* C8: when the series has no usable energy/power column, interpreting it
\* makes the trial fail: a trial whose stop parsed such a file is not
\* recorded as successful and carries no summary with a total of 0.
C8_NoUsableColumnFailsTrial ==
    (pc = "return" /\ InTrace("parse") /\ ~UsableColumn(csv))
    => /\ ~last_saved[1].success
       /\ last_saved[1].energy_data = <<>>

-----------------------------------------------------------------------------
(* Properties of _parse_csv *)

\* a header row that names a column of the candidate tables
InTables(hdr) ==
    \E i \in 1..Len(hdr) : hdr[i] \in Range(EnergyCandidates) \cup Range(PowerCandidates)

\* _parse_csv has run on a file with data rows
ParsedRows == parsed # <<>> /\ csv.readable /\ csv.rows # <<>>

\* C9: column selection is table-driven: when the header row contains none
\* of the names of the candidate tables, interpreting the file ends in an
\* error; no column is picked by its name and no summary is returned.
C9_UnknownHeaderIsError ==
    (ParsedRows /\ ~InTables(csv.hdr)) => parsed[1].exc # <<>>

\* the parsed values of the energy column of file f
EnergyValues(f) == Vals(Column(f.rows, SelectColumns(Headers(f)).energy_col[1]))

\* _parse_csv returned a summary computed from an energy column
EnergySummary ==
    /\ ParsedRows
    /\ parsed[1].ret # <<>>
    /\ SelectColumns(Headers(csv)).energy_col # <<>>

\* 10, 12, 15, 20 in the column "PACKAGE_ENERGY (J)"
ExampleSeries ==
    GenFile(<<"PACKAGE_ENERGY (J)">>, <<Num(10), Num(12), Num(15), Num(20)>>,
            "uniform", FALSE)

\* 10, 15, 12, 20: the same values, not in non-decreasing order
ExamplePerSample ==
    GenFile(<<"PACKAGE_ENERGY (J)">>, <<Num(10), Num(15), Num(12), Num(20)>>,
            "uniform", FALSE)

PowerSummary ==
    /\ ParsedRows
    /\ parsed[1].ret # <<>>
    /\ SelectColumns(Headers(csv)).energy_col = <<>>
    /\ SelectColumns(Headers(csv)).power_col # <<>>

\* the parsed values of the power column of file f
PowerValues(f) == Vals(Column(f.rows, SelectColumns(Headers(f)).power_col[1]))

\* the per-sample delta t (ms) _parse_csv computes for file f
DeltaTimes(f) == Timing(Headers(f), f.rows).delta_times

\* every delta t of file f is the sampling period
UniformlySampled(f) ==
    \A i \in 1..Len(DeltaTimes(f)) : DeltaTimes(f)[i] = SAMPLE_INTERVAL_MS

\* C11: when only a power column is available, the total is the sum over the
\* samples of power_i times delta_t_i: for readings sampled at the uniform
\* interval of 0.5 s it is 0.5 s times the sum of all readings, 4.5 J for
\* the readings 2, 3, 4 W.
C11_PowerTimesDeltaOverSamples ==
    (PowerSummary /\ UniformlySampled(csv))
    => parsed[1].ret[1].total_energy_joules =
           <<SAMPLE_INTERVAL_MS * SeqSum(PowerValues(csv))>>

\* the time column _parse_csv reads: "Delta" before "Time", <<>> when neither
TimeColumnOf(f) ==
    IF "Delta" \in Range(Headers(f)) THEN <<"Delta">>
    ELSE IF "Time" \in Range(Headers(f)) THEN <<"Time">>
    ELSE <<>>

\* the cells of the time column of f (none without a time column)
TimeCells(f) ==
    IF TimeColumnOf(f) = <<>> THEN <<>> ELSE Column(f.rows, TimeColumnOf(f)[1])

\* the well-formed timestamps of f, in row order
WellFormedStamps(f) == Vals(SelectSeq(TimeCells(f), FloatOk))

\* some timestamp cell of f holds text that is not a number
MalformedStamp(f) == \E i \in 1..Len(TimeCells(f)) : TimeCells(f)[i].kind = "bad"

\* one sampling period per row after the first
NominalDeltas(f) == [i \in 1..Max0(Len(f.rows) - 1) |-> SAMPLE_INTERVAL_MS]

\* C12 (as amended): without a time column, with a malformed timestamp cell
\* or with fewer than two timestamps, every delta t is the sampling period,
\* one per row after the first; with at least two timestamps and no
\* malformed cell the deltas are the differences of consecutive timestamps.
C12_DeltaTimes ==
    ParsedRows =>
        IF TimeColumnOf(csv) # <<>> /\ ~MalformedStamp(csv)
           /\ Len(WellFormedStamps(csv)) >= 2
        THEN DeltaTimes(csv) = Diffs(WellFormedStamps(csv))
        ELSE DeltaTimes(csv) = NominalDeltas(csv)

\* C12 witness: a parsed file whose time column holds two well-formed
\* timestamps around a malformed one; its deltas are the sampling period
C12_Witness ==
    /\ ParsedRows
    /\ MalformedStamp(csv)
    /\ WellFormedStamps(csv) = <<0, 2 * SAMPLE_INTERVAL_MS>>
    /\ DeltaTimes(csv) = <<SAMPLE_INTERVAL_MS, SAMPLE_INTERVAL_MS>>

\* C12 (original): without a time column or with malformed timestamps every
\* delta t is the sampling period, and whenever at least two well-formed
\* timestamps exist the deltas are their consecutive differences.
C12_DifferencesWheneverTwoWellFormed ==
    ParsedRows =>
        /\ (TimeColumnOf(csv) = <<>> \/ MalformedStamp(csv))
              => UniformlySampled(csv)
        /\ Len(WellFormedStamps(csv)) >= 2
              => DeltaTimes(csv) = Diffs(WellFormedStamps(csv))

-----------------------------------------------------------------------------
(* Properties of start_playback and the speed procedures *)

\* start_playback has returned
UiDone == pc = "ui" /\ ui_run # <<>> /\ ui_run[1].exc = NoExc

\* what the set-speed procedure did: the operations after the 800 ms wait
SpeedEvents ==
    LET ev == ui_run[1].events
        k  == CHOOSE i \in 1..Len(ev) : ev[i] = "wait_800"
    IN  SubSeq(ev, k + 1, Len(ev))

\* clicks, scrolls and key presses
Interactions ==
    {"label_click", "option_click", "option_click_failed", "scroll_up",
     "scroll_down", "escape"}

\* the label the locate script returns at some poll before the deadline
LocatedLabel ==
    IF \E poll \in 1..MaxPolls : FindSpeed(ui_page, poll) # <<>>
    THEN <<JsNorm(ui_page.label)>> ELSE <<>>

\* a label read without its spaces, its case and with "x" for the
\* multiplication sign
Fold(s) ==
    LET t == SelectSeq(s, NotSpace)
    IN  [i \in 1..Len(t) |-> IF t[i] \in {"X", "mul"} THEN "x" ELSE t[i]]

\* C13: for both sites, whenever the located label and the target label are
\* the same up to case, spaces and the multiplication sign, set-speed
\* returns success and has performed no click, no scroll and no key press.
C13_SameLabelNoInteraction ==
    (UiDone /\ LocatedLabel # <<>>
            /\ Fold(LocatedLabel[1]) = Fold(TargetLabel(ui_speed)))
    => /\ ui_run[1].ok
       /\ \A i \in 1..Len(SpeedEvents) : SpeedEvents[i] \notin Interactions

\* C13 witness: the label "2X" located on the second poll with target "2x"
C13_Witness ==
    /\ UiDone
    /\ ui_page.label = <<"2", "X">>
    /\ ui_speed = 20
    /\ ui_run[1].ok
    /\ SpeedEvents = <<"locate", "wait_250", "locate">>

\* the click on the label went through: the menu was opened
MenuOpened == UiDone /\ "label_click" \in Range(SpeedEvents)

Polling(n) == [i \in 1..(2 * n - 1) |-> IF i % 2 = 1 THEN "locate" ELSE "wait_250"]

\* C15: for both sites, when no label is located before the deadline,
\* set-speed returns failure and has only polled (no click, no key); the
\* loop polls every 250 ms and its last poll is the first that finds a label.
C15_NoLabelNoInteraction ==
    UiDone =>
        IF LocatedLabel = <<>>
        THEN /\ ~ui_run[1].ok
             /\ SpeedEvents = Polling(MaxPolls) \o <<"wait_250">>
        ELSE /\ Prefix(SpeedEvents, 2 * ui_page.label_after - 1)
                    = Polling(ui_page.label_after)
             /\ Count(SpeedEvents, "locate") = ui_page.label_after

\* C15 witness: a page whose speed control reads "2 x", which the locate
\* script does not take for a label; set-speed fails after MaxPolls polls
C15_Witness ==
    /\ UiDone
    /\ ui_page.label = <<"2", " ", "x">>
    /\ ui_page.label_after = 1
    /\ ~ui_run[1].ok
    /\ Count(SpeedEvents, "locate") = MaxPolls

-----------------------------------------------------------------------------
(* Properties of the option search *)

\* the option search has returned
SearchDone == pc = "search" /\ ui_run # <<>>

\* the open menu offers the target, clickable, steps scroll steps below
\* (above, when negative) the offset the menu has when the search starts
TargetAt(steps) ==
    /\ ui_page.menu.visible = "yes"
    /\ norm(ui_page.menu.opt_text) = norm(TargetLabel(ui_speed))
    /\ ui_page.menu.click_ok
    /\ ui_page.menu.opt_at = ui_page.menu.scroll_top + steps

\* C16: a target shown only two downward scroll steps below the menu's
\* offset at the start of the search is found and clicked; a target more
\* than SWEEP_STEPS downward steps below it is never clicked and the search
\* reports not found.
C16_TwoStepsDownFound ==
    SearchDone =>
        /\ TargetAt(2) => /\ ui_run[1].ok
                          /\ "option_click" \in Range(ui_run[1].events)
        /\ (\E k \in (SWEEP_STEPS + 1)..MaxScroll : TargetAt(k))
              => /\ ~ui_run[1].ok
                 /\ "option_click" \notin Range(ui_run[1].events)

\* the scrolls and queries of the search, in order
IsSearchStep(e) == e \in {"query", "scroll_up", "scroll_down"}

SearchSteps == SelectSeq(ui_run[1].events, IsSearchStep)

\* C17: the search queries without scrolling first, then scrolls upward, and
\* scrolls downward only after the SWEEP_STEPS steps of the upward sweep;
\* each sweep makes at most SWEEP_STEPS scroll steps, every scroll step is
\* followed by a query, and the search ends after at most
\* 1 + 2 * SWEEP_STEPS = 29 queries.
C17_SweepOrder ==
    SearchDone =>
        LET st == SearchSteps
        IN  /\ st[1] = "query"
            /\ \A i, j \in 1..Len(st) :
                  (i < j /\ st[i] = "scroll_down") => st[j] # "scroll_up"
            /\ \A j \in 1..Len(st) :
                  st[j] = "scroll_down"
                  => Count(SubSeq(st, 1, j), "scroll_up") = SWEEP_STEPS
            /\ Count(st, "scroll_up") <= SWEEP_STEPS
            /\ Count(st, "scroll_down") <= SWEEP_STEPS
            /\ \A i \in 1..Len(st) :
                  st[i] # "query" => (i < Len(st) /\ st[i + 1] = "query")
            /\ Count(st, "query") <= 1 + 2 * SWEEP_STEPS
            /\ ui_run[1].ok => st[Len(st)] = "query"

\* C17 witness: a search that finds the target on its last query, after the
\* full upward and the full downward sweep
C17_Witness ==
    /\ SearchDone
    /\ ui_run[1].ok
    /\ Count(SearchSteps, "scroll_up") = SWEEP_STEPS
    /\ Count(SearchSteps, "scroll_down") = SWEEP_STEPS
    /\ Count(SearchSteps, "query") = 1 + 2 * SWEEP_STEPS

\* C18: after the play control is clicked, playback is confirmed by polling
\* for the audio element up to a timeout; when the poll times out the
\* dismiss-and-click sequence is repeated exactly once and the poll with
\* it; start_playback returns whether or not playback was confirmed.
C18_ConfirmAndRetryOnce ==
    (pc = "ui" /\ ui_run # <<>> /\ ~ui_page.closed /\ ui_page.play_control)
    => LET ev == ui_run[1].events
           w  == WaitForAudio(ui_page).events
           k  == CHOOSE i \in 1..Len(ev) : ev[i] = "play_click"
       IN  /\ ui_run[1].exc = NoExc
           /\ Prefix(SubSeq(ev, k + 1, Len(ev)), Len(w)) = w
           /\ Count(ev, "play_click") = IF ui_page.audio THEN 1 ELSE 2

-----------------------------------------------------------------------------
(* Properties of the trial around start_playback and start *)

\* the UI-automation failures of a page that is still open: no play control,
\* no speed label, a label the script cannot click, no option equal to the
\* target in the menu
UiFailure(pg, target_speed) ==
    /\ ~pg.closed
    /\ \/ ~pg.play_control
       \/ pg.label = <<>>
       \/ ~pg.clickable
       \/ Fold(pg.menu.opt_text) # Fold(TargetLabel(target_speed))

\* C19: a UI-automation failure during playback start does not abort the
\* trial.  On every page with such a failure start_playback returns without
\* raising; after it the trial enters the measurement wait, a wait that
\* runs its length is followed by the sampler stop, and a trial whose stop
\* returned is recorded with success = true and no error.
C19_UiFailureDoesNotAbort ==
    /\ pc = "playback"
          => \A pg \in TrialPages :
                UiFailure(pg, config.speed)
                => LET r == PlayAndSetSpeed(config.platform, config.speed, pg)
                   IN  r.exc = NoExc /\ Outcome(r) = "degraded"
    /\ playback = "degraded"
          => /\ pc = "wait" => pending = NoExc
             /\ pc # "wait" => (InTrace("wait") \/ InTrace("wait_interrupted"))
             /\ (InTrace("wait") /\ pc # "stop") => InTrace("stop")
             /\ (pc = "return" /\ ~InTrace("stop_force"))
                   => /\ last_saved # <<>>
                      /\ last_saved[1].success
                      /\ last_saved[1].error = <<>>

\* C19 witness: a trial whose playback start hit a UI failure has waited,
\* stopped the sampler and is recorded as successful
C19_Witness ==
    /\ pc = "return"
    /\ playback = "degraded"
    /\ Precedes("play", "wait")
    /\ Precedes("wait", "stop")
    /\ last_saved # <<>>
    /\ last_saved[1].success
    /\ last_saved[1].error = <<>>

\* start raised because the sampler had exited at the probe, and the
\* handler has taken the exception
StartFailed == result # <<>> /\ result.error = <<"EnergyBridge failed to start">>

\* C20: when the sampler has exited at the probe after launch, start raises
\* the start failure and the trial is fatal: playback is never started and
\* the trial is recorded with success = false and a non-null error.
C20_StartFailureIsRecorded ==
    /\ (pc = "except" /\ InTrace("probe") /\ proc_state = "exited"
                      /\ ~InTrace("play"))
          => pending = Exc("EnergyBridge failed to start")
    /\ StartFailed
          => /\ ~InTrace("play")
             /\ pc \in {"return", "propagated"}
                   => /\ last_saved # <<>>
                      /\ ~last_saved[1].success
                      /\ last_saved[1].error # <<>>

-----------------------------------------------------------------------------
(* The sampler's stop, its processes and its files *)

\* the event before position i of the trace
Before(i) == IF i > 1 THEN trace[i - 1] ELSE "none"

\* the calls stop makes on the process
TerminationOps == {"sigint", "terminate", "delivered", "proc_wait", "kill"}

\* this trial's stop reached the process and was not cut short by a
\* KeyboardInterrupt
StopRanThrough == InTrace(GracefulSignal) /\ pending # Cancel

\* C21: stop on a started sampler first sends the graceful signal, then waits,
\* and calls kill only when the signal call failed or the wait on the live
\* process timed out; on every path (graceful exit, forced kill, kill itself
\* failing) it afterwards parses the output file if one exists.  The signal is
\* the first call of the stop and is sent once; the wait follows the signal;
\* kill follows a failed signal or the wait on a process the signal reached,
\* never the wait on a process that had exited; the parse comes after the
\* last call on the process and happens exactly when the file exists.
C21_GracefulThenKillThenParse ==
    /\ Count(trace, GracefulSignal) <= 1
    /\ \A i \in 1..Len(trace) :
          /\ trace[i] = GracefulSignal => Before(i) \in {"stop", "stop_force"}
          /\ trace[i] = "delivered" => Before(i) = GracefulSignal
          /\ trace[i] = "proc_wait" => Before(i) \in {GracefulSignal, "delivered"}
          /\ trace[i] = "kill" =>
                \/ Before(i) = GracefulSignal
                \/ Before(i) = "proc_wait" /\ Before(i - 1) = "delivered"
          /\ trace[i] = "parse" =>
                /\ \E j \in 1..(i - 1) : trace[j] = GracefulSignal
                /\ \A j \in (i + 1)..Len(trace) : trace[j] \notin TerminationOps
    /\ StopRanThrough => (InTrace("parse") <=> csv.exists)

\* C21 witness: kill was called and failed, the process still runs, and the
\* file was parsed
C21_Witness ==
    /\ InTrace("kill")
    /\ proc_state = "running"
    /\ InTrace("parse")
    /\ pc = "finally"

\* C22: on Linux, where the sampler is launched through sudo -n, a failure to
\* elevate always results in a start failure: start raises, playback is never
\* reached, and the trial is recorded as failed with the start error; it is
\* never recorded as successful.
C22_ElevationFailureIsStartFailure ==
    InTrace("sudo_refused")
       => /\ os_name = "Linux"
          /\ pc \notin {"playback", "wait", "stop"}
          /\ ~InTrace("play")
          /\ pc = "except" => pending = Exc("EnergyBridge failed to start")
          /\ pc \in {"return", "propagated"}
                => /\ last_saved # <<>>
                   /\ ~last_saved[1].success
                   /\ last_saved[1].error = <<"EnergyBridge failed to start">>

\* the output paths given to the trials of the batch that have ended
EarlierPaths == {energy_filepath(k[1], k[2]) : k \in saved}

\* C23: each trial of a batch has its own sampler process and its own output
\* file: a trial launches at most one sampler process, its stop signals only
\* a process the trial launched itself, no sampler process of an earlier trial
\* is still running (recording) during a later trial, and the output path of
\* a trial is the path of no earlier trial of the batch.
C23_OwnSamplerOwnFile ==
    /\ Count(trace, LaunchEvent) <= 1
    /\ InTrace(GracefulSignal) => InTrace(LaunchEvent)
    /\ orphans = 0
    /\ InTry => energy_filepath(config.name, run_id) \notin EarlierPaths

\* browser sessions in existence: those earlier trials left open and the
\* one of the current trial
BrowserSessions == open_sessions + (IF controller._context THEN 1 ELSE 0)

\* sampler processes in existence: those earlier trials left running and the
\* one of the current trial
SamplerProcesses == orphans + (IF proc_state = "running" THEN 1 ELSE 0)

\* C24: trials never overlap: at every moment at most one browser session
\* (and so at most one user of a browser profile directory) and at most one
\* sampler process (and so at most one writer of an output file) exist, also
\* after a trial whose teardown or sampler stop failed.
C24_TrialsNeverOverlap ==
    /\ BrowserSessions <= 1
    /\ SamplerProcesses <= 1

-----------------------------------------------------------------------------
(* The two site variants of set-speed *)

IsInteraction(e) == e \in Interactions

OtherSite(site) == IF site = "apple" THEN "spotify" ELSE "apple"

\* C25: the two site variants run the same algorithm: on the same page (the
\* same label, found or not, equal to the target or not, clickable or not,
\* the same menu, visible or not, and the same option position) the Apple
\* and the Spotify procedure perform the same sequence of clicks, scroll
\* steps and key presses and return the same result.
C25_SitesRunSameAlgorithm ==
    UiDone =>
        LET other == SetSpeed(OtherSite(ui_platform), ui_speed, ui_page)
        IN  /\ ui_run[1].ok = other.ok
            /\ SelectSeq(SpeedEvents, IsInteraction)
                  = SelectSeq(other.events, IsInteraction)

-----------------------------------------------------------------------------
(* Failures of setup and of the sampler's stop *)

\* str(e) of the exceptions setup raises on a missing or unusable session
\* file and on a failed navigation
SetupErrors ==
    {"spotify_session.json not found", "spotify_session.json unusable",
     "navigation failed"}

\* the handler has recorded one of them
SetupFatal == result # <<>> /\ result.error # <<>> /\ result.error[1] \in SetupErrors

KillRequired == InTrace("stop") /\ InTrace("kill")

SamplerStarted == ~args_dry_run /\ InTrace("probe") /\ InTrace("play")

\* C28: for every trial in which the sampler was started, the series is
\* interpreted exactly once, on the success path and on every failure path,
\* and only after the sampler process has stopped writing: never twice,
\* never while the process is still running, and once by the time the try
\* statement of the trial is over.
C28_ParsedOnceAfterStop ==
    /\ Count(trace, "parse") <= 1
    /\ InTrace("parse") => proc_state # "running"
    /\ (SamplerStarted /\ TryOver /\ csv.exists) => Count(trace, "parse") = 1

-----------------------------------------------------------------------------
(* Properties of the locate and the click script *)

\* the elements of a root of the page
InRoot(r) == Range(QueryAll(ui_platform, ui_page, r))

\* the root holds an element that is shown and reads as a speed
VisibleMatch(r) ==
    \E i \in InRoot(r) : ui_page[i].visible /\ SpeedRe(JsNorm(ui_page[i].text))

\* the locate script has run; the click script has run and clicked
Located == ui_run # <<>> /\ ui_run[1].current # <<>>
Clicked == Len(ui_run) = 2 /\ ui_run[2].clicked

\* C29: the current speed label is taken from the first root, in the listed
\* order, that contains a visible matching element: a label is returned
\* exactly when some root has one, it is the text of such an element of its
\* root, and no root listed before the root of the element returned, or of
\* the element clicked, contains a visible matching element.
C29_FirstRootWins ==
    /\ ui_run # <<>>
          => (ui_run[1].current = <<>>
                <=> \A k \in 1..Len(LocateRoots(ui_platform)) :
                       ~VisibleMatch(LocateRoots(ui_platform)[k]))
    /\ Located
          => LET loc == ui_run[1]
             IN  /\ loc.el \in InRoot(loc.root)
                 /\ ui_page[loc.el].visible
                 /\ loc.current = <<JsNorm(ui_page[loc.el].text)>>
                 /\ SpeedRe(loc.current[1])
                 /\ \A r \in 1..(loc.root - 1) : ~VisibleMatch(r)
    /\ Clicked
          => /\ ui_run[2].el \in InRoot(ui_run[2].root)
             /\ \A r \in 1..(ui_run[2].root - 1) : ~VisibleMatch(r)

\* C29 witness: a visible speed in a later root comes first in the document,
\* and the label was taken from, and clicked in, the second root
C29_Witness ==
    /\ Clicked
    /\ ui_run[1].root = 2
    /\ ui_run[2].root = 2
    /\ \E i \in 1..(ui_run[1].el - 1) :
          /\ ui_page[i].root = 3
          /\ ui_page[i].visible
          /\ SpeedRe(JsNorm(ui_page[i].text))

\* the elements of the root clicked in whose text is the label
LabelMatches ==
    {i \in InRoot(ui_run[2].root) : JsNorm(ui_page[i].text) = ui_run[1].current[1]}

-----------------------------------------------------------------------------
(* Properties of the climb *)

\* the levels of the chain the climb looks at that are clickable and shown
Qualifying ==
    {k \in 1..Len(ui_page) :
        k <= CLIMB_LEVELS /\ ui_page[k].clickable /\ ui_page[k].visible}

\* C31: clicking a matched label ascends from the matched element through
\* at most six levels, the element itself counted, clicks the nearest one
\* that is both interactive and visible, and clicks the matched element when
\* none qualifies; exactly one element is clicked.
C31_ClimbToClickable ==
    pc = "climbed"
       => /\ Len(ui_run[1]) = 1
          /\ ui_run[1][1] \in 1..CLIMB_LEVELS
          /\ IF Qualifying = {}
             THEN ui_run[1][1] = 1
             ELSE /\ ui_run[1][1] \in Qualifying
                  /\ \A k \in Qualifying : ui_run[1][1] <= k

\* C31 witness: only the seventh level is clickable and shown, and the
\* matched element itself was clicked
C31_Witness ==
    /\ pc = "climbed"
    /\ Len(ui_page) = 7
    /\ ui_page[7].clickable /\ ui_page[7].visible
    /\ Qualifying = {}
    /\ ui_run[1] = <<1>>

-----------------------------------------------------------------------------
(* Properties of the play click *)

\* the clicks on a play control that start_playback performed: the calls of
\* click() that returned
PlayClicks == Count(ui_run[1].events, "play_click")

\* the selectors of the Apple list that become visible, in list order
VisibleSelectors ==
    SelectSeq([k \in 1..Len(PlaySelectors) |-> k],
              LAMBDA k : ui_page.controls.selectors[k] # "hidden")

\* C32: starting playback clicks a play control at most once: on Spotify
\* only if a button labelled Play exists, on Apple only the first selector
\* of the list that becomes visible (when the click on that one does not go
\* through, no other selector is clicked); and the speed is set exactly
\* once afterwards, whether or not a play control was clicked.
C32_PlayClickedAtMostOnce ==
    UiDone =>
        /\ PlayClicks <= 1
        /\ (ui_platform = "spotify" /\ PlayClicks = 1)
              => \E k \in 1..Len(ui_page.controls.buttons) :
                    Strip(ui_page.controls.buttons[k]) = <<"P", "l", "a", "y">>
        /\ (ui_platform = "apple" /\ PlayClicks = 1)
              => /\ VisibleSelectors # <<>>
                 /\ ui_page.controls.selectors[VisibleSelectors[1]] = "ok"
        /\ Count(ui_run[1].events, "wait_800") = 1
        /\ SpeedEvents = SetSpeed(ui_platform, ui_speed, ui_page).events

(* ---------------------------------------------------------------------- *)
(* Properties of the persisted record                                     *)
(* ---------------------------------------------------------------------- *)

\* C33: every persisted trial record satisfies: success = true implies
\* error is null; success = false implies error is non-null and energy_data
\* is null.
C33_SuccessAndErrorExclusive ==
    last_saved # <<>> =>
        /\ last_saved[1].success => last_saved[1].error = <<>>
        /\ ~last_saved[1].success
              => /\ last_saved[1].error # <<>>
                 /\ last_saved[1].energy_data = <<>>

\* a failed trial was persisted after its sampler had been started
C33_Witness ==
    /\ last_saved # <<>>
    /\ ~last_saved[1].success
    /\ InTrace("stop_force")
    /\ InTrace("start")

\* C34: every trial record with success = true has non-null energy data
\* containing a total_energy_joules field, the field the downstream
\* analysis reads for each successful trial.
C34_SuccessHasTotalEnergy ==
    (last_saved # <<>> /\ last_saved[1].success)
       => /\ last_saved[1].energy_data # <<>>
          /\ "total_energy_joules" \in DOMAIN last_saved[1].energy_data[1]


(* ---------------------------------------------------------------------- *)
(* Properties of EnergyProfiler.stop                                      *)
(* ---------------------------------------------------------------------- *)

\* the failure handler is about to call stop before any start, or after the
\* stop of line 87
StopWithoutSampler == pc = "except" /\ (~InTrace("start") \/ InTrace("stop"))

\* a stop has been called in the current trial
StopCalled == InTrace("stop") \/ InTrace("stop_force")

\* C35 as stated: stop called before start, or a second time after a stop,
\* returns null without sending any signal and without parsing; after any
\* stop the profiler holds no process handle.
C35_StopIdempotentReturnsNull ==
    /\ StopWithoutSampler
          => \A r \in StopRuns(profiler, proc_state, TRUE) :
                r.ret = <<>> /\ r.events = <<>> /\ r.exc = NoExc
    /\ StopCalled => ~profiler._proc

\* C35, amended: stop called before start, or a second time after a stop,
\* sends no signal, parses nothing, raises nothing, leaves the profiler as
\* it is and returns null, or, in dry-run mode, the dry-run summary; after
\* any stop returns or raises, the profiler holds no process handle.
C35_StopIdempotent ==
    /\ StopWithoutSampler
          => /\ ~profiler._proc
             /\ \A r \in StopRuns(profiler, proc_state, TRUE) :
                   /\ r.ret = IF profiler.dry_run THEN <<DrySummary>> ELSE <<>>
                   /\ r.events = <<>>
                   /\ r.exc = NoExc
                   /\ r.profiler = profiler
                   /\ r.proc_state = proc_state
    /\ StopCalled => ~profiler._proc

\* without dry-run, the stop of line 87 ran on a started sampler and raised,
\* and the handler has called stop a second time
C35_Witness ==
    /\ ~args_dry_run
    /\ InTrace("start")
    /\ InTrace("stop")
    /\ InTrace("stop_force")
    /\ pc = "finally"

\* C36: after stop returns for a started sampler, the sampler process has
\* terminated: no sampler process is left running once the trial's failure
\* handler or success path has called stop and the call returned.
C36_StoppedMeansTerminated ==
    (StopCalled /\ pending = NoExc /\ pc \in {"finally", "save", "return"})
       => proc_state # "running"

\* what a stop does to the process and the file
StopOps == TerminationOps \cup {"parse"}

\* C37: the force argument of stop changes nothing: from the state in which
\* the trial calls stop, stop(force=True) and stop(force=False) have the
\* same runs (the same actions, the same value returned or exception
\* raised, the same profiler afterwards), and a forced stop that does
\* anything begins with the graceful signal, kills only after the signal or
\* the wait, and parses last.
C37_ForceChangesNothing ==
    /\ pc \in {"stop", "except"}
          => StopRuns(profiler, proc_state, TRUE) = StopRuns(profiler, proc_state, FALSE)
    /\ \A i \in 1..Len(trace) :
          trace[i] = "stop_force"
             => /\ (i < Len(trace) /\ trace[i + 1] \in StopOps)
                      => trace[i + 1] = GracefulSignal
                /\ \A j \in (i + 1)..Len(trace) :
                      /\ trace[j] = "kill"
                            => trace[j - 1] \in {GracefulSignal, "proc_wait"}
                      /\ (trace[j] = "parse" /\ j < Len(trace))
                            => trace[j + 1] \notin StopOps

\* the failure handler's stop(force=True) ran on a started sampler: it sent
\* the graceful signal, waited and parsed the output
C37_Witness ==
    /\ InTrace("stop_force")
    /\ ~InTrace("stop")
    /\ InTrace(GracefulSignal)
    /\ InTrace("proc_wait")
    /\ InTrace("parse")


(* ---------------------------------------------------------------------- *)
(* Properties of one set-speed invocation                                 *)
(* ---------------------------------------------------------------------- *)

\* C38: in the Spotify speed-setting procedure every root scope searched
\* when locating the current speed label is also searched when clicking
\* it, so a label that the locate step found is always found again by the
\* click step on the unchanged page.
C38_LocatedLabelIsClickable ==
    (ui_platform = "spotify" /\ pc = "clicked" /\ Located)
       => /\ ui_run[1].root \in Range(ClickRoots(ui_platform))
          /\ Clicked

\* C39: one set-speed invocation performs at most two clicks in total: at
\* most one click on the current speed label, at most one click on a menu
\* option, the option only after the label, and never a click on an option
\* whose normalised text differs from the normalised target label.  A
\* click is a call of click() that returned.
C39_AtMostTwoClicks ==
    UiDone =>
        LET ev == SpeedEvents
        IN  /\ Count(ev, "label_click") <= 1
            /\ Count(ev, "option_click") <= 1
            /\ Count(ev, "label_click") + Count(ev, "option_click") <= 2
            /\ "option_click" \in Range(ev)
                  => /\ "label_click" \in Range(ev)
                     /\ norm(ui_page.menu.opt_text) = norm(TargetLabel(ui_speed))
            /\ (norm(ui_page.menu.opt_text) # norm(TargetLabel(ui_speed)))
                  => "option_click_failed" \notin Range(ev)

\* both clicks were performed, the option found during a sweep
C39_Witness ==
    /\ UiDone
    /\ Count(SpeedEvents, "label_click") = 1
    /\ Count(SpeedEvents, "option_click") = 1
    /\ "scroll_up" \in Range(SpeedEvents)


(* ---------------------------------------------------------------------- *)
(* Properties of the summary's duration                                   *)
(* ---------------------------------------------------------------------- *)

\* C40: in every Energy Summary, duration_seconds equals the sum of the
\* per-sample delta_t values used for integration, on all three timing
\* paths (cumulative "Delta" column, absolute "Time" column,
\* nominal-interval fallback).
C40_DurationIsSumOfDeltas ==
    (ParsedRows /\ parsed[1].ret # <<>>
        /\ "duration_seconds" \in DOMAIN parsed[1].ret[1]
        /\ parsed[1].ret[1].duration_seconds # <<>>)
    => parsed[1].ret[1].duration_seconds = <<SeqSum(DeltaTimes(csv))>>

=============================================================================
